---- MODULE Spec2Model ----
(***************************************************************************)
(* Verification model of the pluggable service-connector framework of      *)
(* backend/app/connectors: the connector factory / registry                *)
(* (factory.py), the connector base contract (base.py), the three          *)
(* connectors and their providers.                                         *)
(*                                                                         *)
(* Python values.  A dict is a sequence of items in insertion order; an    *)
(* item is a record [k, kind, s, n, sub]: key k, and a value that is a     *)
(* string s (kind "str"), an integer n (kind "int") or a nested dict sub   *)
(* (kind "map").  Two dicts are equal in Python when they hold the same    *)
(* items, whatever the insertion order (ContentEq below).                  *)
(***************************************************************************)
EXTENDS Integers, Sequences, FiniteSets, TLC

VARIABLES
    instances,      \* ServiceConnectorFactory._instances: cache key -> connector
    lock,           \* ServiceConnectorFactory._lock: "" when free, else its holder
    config_cache,   \* ServiceConnectorFactory._config_cache
    file,           \* config/service_conf.yaml as the file system holds it
    pc,             \* per thread: where it stands in its current factory call
    call,           \* per thread: the arguments of its current / last get_connector
    res,            \* per thread: how its last get_connector call ended
    clearedSince,   \* per thread: _instances was cleared since its last call began
    built,          \* every connector constructed so far, with the key it was built for
    ncalls,         \* number of get_connector calls started
    loads,          \* times the file was opened and read since the last reload_config
    conn,           \* the connector a caller holds and uses
    out,            \* how the last operation on conn ended
    api,            \* the _call_api call under way on conn, with its retry state
    dimension       \* provider._dimension of conn, and the probes made to find it

factoryVars ==
    <<instances, lock, config_cache, file, pc, call, res, clearedSince, built, ncalls, loads>>

connVars == <<conn, out, api, dimension>>

vars == <<factoryVars, connVars>>

-----------------------------------------------------------------------------
(* Bounds *)

MaxCalls == 2

Threads == {"t1", "t2"}

-----------------------------------------------------------------------------
(* dict items and dict.get *)

S(k, s) == [k |-> k, kind |-> "str", s |-> s, n |-> 0, sub |-> <<>>]
N(k, n) == [k |-> k, kind |-> "int", s |-> "", n |-> n, sub |-> <<>>]
M(k, sub) == [k |-> k, kind |-> "map", s |-> "", n |-> 0, sub |-> sub]

NoItem == [k |-> "", kind |-> "none", s |-> "", n |-> 0, sub |-> <<>>]

Keys(d) == {d[i].k : i \in 1..Len(d)}

Has(d, key) == key \in Keys(d)

\* d[key] for a key the dict holds
Item(d, key) == d[CHOOSE i \in 1..Len(d) : d[i].k = key]

\* d.get(key, default), the default given as an item
Get(d, key, default) == IF Has(d, key) THEN Item(d, key) ELSE default

\* A dict that counts as given whatever it holds.
Truthy_any(d) == TRUE

\* bool(d) of a dict
Truthy(d) == Len(d) > 0

\* bool(v) of an item's value (None for a key that is absent)
TruthyValue(e) ==
    CASE e.kind = "str" -> e.s # ""
      [] e.kind = "int" -> e.n # 0
      [] e.kind = "map" -> Len(e.sub) > 0
      [] OTHER -> FALSE

-----------------------------------------------------------------------------
(* str(sorted(config.items())) and the cache key, factory.py 62-64 *)

\* The order of Python's str comparison (by code point) on the keys in use.
KeyOrder ==
    <<"api_key", "auth", "base_url", "chunk_overlap", "chunk_size", "google",
      "huggingface", "internal", "lang", "max_retries", "model_name", "nope",
      "openai", "provider", "tesseract", "timeout", "token", "url">>

KeyRank(k) == CHOOSE i \in 1..Len(KeyOrder) : KeyOrder[i] = k

RECURSIVE InsertSorted(_, _)
InsertSorted(e, s) ==
    IF s = <<>> THEN <<e>>
    ELSE IF KeyRank(e.k) <= KeyRank(Head(s).k) THEN <<e>> \o s
    ELSE <<Head(s)>> \o InsertSorted(e, Tail(s))

\* sorted(d.items()): the items ordered by key (keys are unique, so the values
\* are never compared)
RECURSIVE sorted(_)
sorted(d) == IF d = <<>> THEN <<>> ELSE InsertSorted(Head(d), sorted(Tail(d)))

\* repr of a value: a nested dict is rendered in its insertion order
RECURSIVE repr(_)
RECURSIVE repr_dict_items(_)
repr_dict_items(d) ==
    IF d = <<>> THEN ""
    ELSE "'" \o Head(d).k \o "': " \o repr(Head(d))
         \o (IF Tail(d) = <<>> THEN "" ELSE ", " \o repr_dict_items(Tail(d)))

repr(e) ==
    CASE e.kind = "str" -> "'" \o e.s \o "'"
      [] e.kind = "int" -> ToString(e.n)
      [] e.kind = "map" -> "{" \o repr_dict_items(e.sub) \o "}"
      [] OTHER -> "None"

\* str of a list of (key, value) tuples
RECURSIVE str_tuples(_)
str_tuples(l) ==
    IF l = <<>> THEN ""
    ELSE "('" \o Head(l).k \o "', " \o repr(Head(l)) \o ")"
         \o (IF Tail(l) = <<>> THEN "" ELSE ", " \o str_tuples(Tail(l)))

str_list(l) == "[" \o str_tuples(l) \o "]"

\* hash(s) of a str: the digest is taken to be collision-free, and is stood
\* for by the string it digests
hash(s) == s

\* A key that reads the names of the top-level items only.
RECURSIVE str_keys(_)
str_keys(l) == IF l = <<>> THEN "" ELSE "'" \o Head(l).k \o "', " \o str_keys(Tail(l))

config_hash_top_keys(hasCfg, cfg) ==
    IF hasCfg /\ Truthy(cfg) THEN hash("[" \o str_keys(sorted(cfg)) \o "]") ELSE "0"

\* config_hash = hash(str(sorted(config.items()))) if config else 0
config_hash(hasCfg, cfg) ==
    IF hasCfg /\ Truthy(cfg) THEN hash(str_list(sorted(cfg))) ELSE "0"

\* A key made of the service type alone.
cache_key_by_type(service_type, hasCfg, cfg) == service_type

\* cache_key = f"{service_type}_{config_hash}"
cache_key(service_type, hasCfg, cfg) == service_type \o "_" \o config_hash(hasCfg, cfg)

-----------------------------------------------------------------------------
(* Error taxonomy, errors.py; and the exceptions providers raise raw *)

Taxonomy ==
    {"ProviderNotFoundError", "ConfigurationError", "ConnectionError",
     "HealthCheckError", "ProcessingError"}

-----------------------------------------------------------------------------
(* Connector construction: BaseConnector.__init__ and the _init_provider of *)
(* the three connectors                                                     *)

\* str.lower() on the service-type and provider names in use
Lower(s) ==
    CASE s = "OCR" -> "ocr"
      [] s = "Tesseract" -> "tesseract"
      [] OTHER -> s

\* A lookup of the service type as it is written.
connector_map_exact(service_type) ==
    CASE service_type = "ocr" -> "OCRConnector"
      [] service_type = "chunking" -> "ChunkingConnector"
      [] service_type = "embedding" -> "EmbeddingConnector"
      [] OTHER -> ""

\* connector_map.get(service_type.lower()), "" for None
connector_map(service_type) ==
    CASE Lower(service_type) = "ocr" -> "OCRConnector"
      [] Lower(service_type) = "chunking" -> "ChunkingConnector"
      [] Lower(service_type) = "embedding" -> "EmbeddingConnector"
      [] OTHER -> ""

\* self.provider_type = config.get('provider', 'default')
provider_type(config) == Get(config, "provider", S("provider", "default"))

\* self.timeout = config.get('timeout', 30)
timeout(config) == Get(config, "timeout", N("timeout", 30))

\* self.max_retries = config.get('max_retries', 3)
max_retries(config) == Get(config, "max_retries", N("max_retries", 3))

\* provider_map of each connector: the provider class a name selects,
\* "stub" for a provider whose init function only raises ProviderNotFoundError,
\* "" for a name the map lacks
provider_map(cls, name) ==
    CASE cls = "OCRConnector" /\ name = "tesseract" -> "LocalTesseractProvider"
      [] cls = "OCRConnector" /\ name \in {"google", "azure", "aws"} -> "stub"
      [] cls = "ChunkingConnector" /\ name = "internal" -> "InternalChunker"
      [] cls = "ChunkingConnector" /\ name \in {"langchain", "llamaindex", "semantic"} -> "stub"
      [] cls = "EmbeddingConnector" /\ name = "openai" -> "OpenAIEmbedding"
      [] cls = "EmbeddingConnector" /\ name = "huggingface" -> "HuggingFaceEmbedding"
      [] cls = "EmbeddingConnector" /\ name = "ollama" -> "OllamaEmbedding"
      [] cls = "EmbeddingConnector" /\ name \in {"azure", "cohere"} -> "stub"
      [] OTHER -> ""

\* the config key of the section a provider class is built from
section_key(provider) ==
    CASE provider = "LocalTesseractProvider" -> "tesseract"
      [] provider = "InternalChunker" -> "internal"
      [] provider = "OpenAIEmbedding" -> "openai"
      [] provider = "HuggingFaceEmbedding" -> "huggingface"
      [] provider = "OllamaEmbedding" -> "ollama"
      [] OTHER -> ""

\* provider_config = self.config.get('<name>', {})
provider_config(config, provider) ==
    Get(config, section_key(provider), M(section_key(provider), <<>>))

\* The provider's __init__ on its section: the exception it raises, "" for none.
\* Only OpenAIEmbedding checks anything (api_key); every __init__ calls
\* config.get, which a section that is no dict does not have.
provider_init(provider, section) ==
    IF section.kind # "map" THEN "AttributeError"
    ELSE IF provider = "OpenAIEmbedding"
            /\ ~TruthyValue(Get(section.sub, "api_key", NoItem))
         THEN "ValueError"
    ELSE ""

\* _init_provider: [exc |-> the exception raised or "", provider |-> the class built]
init_provider(cls, config) ==
    LET pt == provider_type(config)
        name == Lower(pt.s)
        provider == provider_map(cls, name)
    IN  IF pt.kind # "str" THEN [exc |-> "AttributeError", provider |-> ""]
        ELSE IF provider \in {"", "stub"}
             THEN [exc |-> "ProviderNotFoundError", provider |-> ""]
        ELSE [exc |-> provider_init(provider, provider_config(config, provider)),
              provider |-> provider]

NoInst == [id |-> 0, cls |-> "", config |-> <<>>, provider |-> ""]

\* connector_class(final_config): BaseConnector.__init__ then _init_provider;
\* the connector exists only when no exception left __init__
new_connector(cls, config, id) ==
    LET p == init_provider(cls, config)
    IN  IF p.exc # "" THEN [exc |-> p.exc, inst |-> NoInst]
        ELSE [exc |-> "",
              inst |-> [id |-> id, cls |-> cls, config |-> config, provider |-> p.provider]]

-----------------------------------------------------------------------------
(* Configuration resolution: _get_default_config and _load_config *)

\* defaults.get(service_type.lower()) or {}
get_default_config(service_type) ==
    CASE Lower(service_type) = "ocr" ->
            <<S("provider", "tesseract"),
              M("tesseract", <<S("url", "http://localhost:8081"), S("lang", "eng+kor"),
                               N("timeout", 30)>>),
              N("timeout", 30), N("max_retries", 3)>>
      [] Lower(service_type) = "chunking" ->
            <<S("provider", "internal"),
              M("internal", <<N("chunk_size", 512), N("chunk_overlap", 50),
                              S("delimiter", "\\n!?")>>),
              N("timeout", 30), N("max_retries", 3)>>
      [] Lower(service_type) = "embedding" ->
            <<S("provider", "huggingface"),
              M("huggingface", <<S("model_name", "BAAI/bge-large-en-v1.5"),
                                 S("base_url", "http://localhost:8080"),
                                 S("device", "cpu")>>),
              N("timeout", 60), N("max_retries", 3)>>
      [] OTHER -> <<>>

\* Two configuration documents the file may hold (after parsing).  DocA has an
\* ocr section and an embedding section whose provider cannot be built (openai
\* without api_key); DocB has another ocr section and nothing else.
DocA ==
    <<M("ocr_service", <<S("provider", "tesseract"),
                         M("tesseract", <<S("url", "http://ocr-a")>>)>>),
      M("embedding_service", <<S("provider", "openai"),
                               M("openai", <<S("model_name", "m")>>)>>)>>

DocB ==
    <<M("ocr_service", <<S("provider", "tesseract"),
                         M("tesseract", <<S("url", "http://ocr-b")>>)>>)>>

\* What config_path holds: no file; a file that cannot be read or parsed; an
\* empty document (yaml.safe_load gives None); a document that is a list; a
\* mapping.
FileStates ==
    {[kind |-> "absent", doc |-> <<>>], [kind |-> "unparsable", doc |-> <<>>],
     [kind |-> "empty", doc |-> <<>>], [kind |-> "list", doc |-> <<>>],
     [kind |-> "map", doc |-> DocA], [kind |-> "map", doc |-> DocB]}

NoCache == [kind |-> "None", doc |-> <<>>]

\* yaml.safe_load(config_content) of a file that parses
yaml_safe_load(f) ==
    CASE f.kind = "map" -> [kind |-> "map", doc |-> f.doc]
      [] f.kind = "list" -> [kind |-> "list", doc |-> <<>>]
      [] OTHER -> NoCache

\* _load_config(service_type) on the cache and the file as they are:
\* [exc |-> the exception that leaves it or "", cfg |-> the dict returned,
\*  cache |-> _config_cache afterwards, read |-> the file was opened and read
\*  (161-162)].  With the cache None: no file, or a
\* file that raises while it is read or parsed, returns the defaults and leaves
\* the cache None.  Line 177 calls .get on whatever the cache then is.
load_config(service_type) ==
    LET miss == config_cache.kind = "None"
        cache1 == IF miss THEN yaml_safe_load(file) ELSE config_cache
        service_key == Lower(service_type) \o "_service"
        read == miss /\ file.kind # "absent"
    IN  IF miss /\ file.kind \in {"absent", "unparsable"}
        THEN [exc |-> "", cfg |-> get_default_config(service_type), cache |-> config_cache,
              read |-> read]
        ELSE IF cache1.kind = "map"
        THEN [exc |-> "", cfg |-> Get(cache1.doc, service_key, M(service_key, <<>>)).sub,
              cache |-> cache1, read |-> read]
        ELSE [exc |-> "AttributeError", cfg |-> <<>>, cache |-> cache1, read |-> read]

-----------------------------------------------------------------------------
(* _create_connector, factory.py 78-135 *)

\* The exception of the connector class let through as it is.
construction_error_raw(exc) == exc

\* except Exception as e: raise ConfigurationError(...) from e   (131-135)
construction_error(exc) == "ConfigurationError"

\* [exc |-> the exception raised or "", inst |-> the connector, cache |-> the
\*  _config_cache afterwards, final |-> final_config as handed to the connector
\*  class, {} when the call did not get that far, read |-> _load_config was
\*  called and read the file]
create_connector(service_type, hasCfg, cfg, id) ==
    LET cls == connector_map(service_type)
        explicit == hasCfg /\ Truthy(cfg)
        loaded == load_config(service_type)
        final_config == IF explicit THEN cfg ELSE loaded.cfg
        cache1 == IF explicit THEN config_cache ELSE loaded.cache
        made == new_connector(cls, final_config, id)
        read == ~explicit /\ loaded.read
    IN  IF cls = ""
        THEN [exc |-> "ProviderNotFoundError", inst |-> NoInst, cache |-> config_cache,
              final |-> <<>>, read |-> FALSE]
        ELSE IF ~explicit /\ loaded.exc # ""
        THEN [exc |-> loaded.exc, inst |-> NoInst, cache |-> cache1, final |-> <<>>,
              read |-> read]
        ELSE IF ~Truthy(final_config)
        THEN [exc |-> "ConfigurationError", inst |-> NoInst, cache |-> cache1,
              final |-> <<>>, read |-> read]
        ELSE IF made.exc # ""
        THEN [exc |-> construction_error(made.exc), inst |-> NoInst, cache |-> cache1,
              final |-> final_config, read |-> read]
        ELSE [exc |-> "", inst |-> made.inst, cache |-> cache1, final |-> final_config,
              read |-> read]

-----------------------------------------------------------------------------
(* The calls the threads make *)

CfgTess ==
    <<S("provider", "tesseract"),
      M("tesseract", <<S("url", "http://a"), S("lang", "eng")>>)>>

\* CfgTess with its top-level keys inserted in the other order
CfgTessTop ==
    <<M("tesseract", <<S("url", "http://a"), S("lang", "eng")>>),
      S("provider", "tesseract")>>

\* CfgTess with the keys of its provider section inserted in the other order
CfgTessNested ==
    <<S("provider", "tesseract"),
      M("tesseract", <<S("lang", "eng"), S("url", "http://a")>>)>>

\* differs from CfgTess in a nested setting only
CfgTessB ==
    <<S("provider", "tesseract"),
      M("tesseract", <<S("url", "http://b"), S("lang", "eng")>>)>>

CfgOpenAINoKey ==
    <<S("provider", "openai"), M("openai", <<S("model_name", "m")>>)>>

CfgOpenAIKey ==
    <<S("provider", "openai"),
      M("openai", <<S("api_key", "sk-1"), S("model_name", "m")>>)>>

CfgNope == <<S("provider", "nope")>>

Req(st, cfg) == [st |-> st, hasCfg |-> TRUE, cfg |-> cfg]
ReqNone(st) == [st |-> st, hasCfg |-> FALSE, cfg |-> <<>>]

Requests ==
    {Req("ocr", CfgTess), Req("ocr", CfgTessTop), Req("ocr", CfgTessNested),
     Req("ocr", CfgTessB), Req("ocr", CfgNope), Req("foo", CfgTess),
     Req("embedding", CfgOpenAINoKey), Req("embedding", CfgOpenAIKey),
     ReqNone("ocr"), ReqNone("embedding")}

\* the calls made in the concurrent specification
ConcRequests ==
    {Req("ocr", CfgTess), Req("ocr", CfgTessB), Req("ocr", CfgNope), ReqNone("ocr")}

KeyOf(r) == cache_key(r.st, r.hasCfg, r.cfg)

\* How a call ended: the connector returned, or the exception raised (with the
\* final_config whose construction raised it, {} otherwise)
NoRes == [kind |-> "none", inst |-> NoInst, err |-> "", final |-> <<>>]
Returned(inst) == [kind |-> "inst", inst |-> inst, err |-> "", final |-> <<>>]
Raised(exc, final) == [kind |-> "error", inst |-> NoInst, err |-> exc, final |-> final]

EmptyRegistry == [k \in {} |-> NoInst]

Store(reg, key, inst) ==
    [k \in DOMAIN reg \cup {key} |-> IF k = key THEN inst ELSE reg[k]]

\* no connector in use, no operation made, no _call_api under way
NoOut == [op |-> "", net |-> "", input |-> <<>>, kwargs |-> <<>>, kind |-> "",
          exc |-> "", flag |-> FALSE, info |-> <<>>, list |-> <<>>,
          requests |-> 0, status |-> 0, timeout |-> 0, sent |-> <<>>,
          value |-> 0]
NoApi == [pc |-> "idle", server |-> "", method |-> "", attempt_number |-> 0,
          requests |-> 0, exc |-> ""]

\* self._dimension = None; no probe made
NoDimension == [set |-> FALSE, n |-> 0, probes |-> 0]

ConnIdle == conn = NoInst /\ out = NoOut /\ api = NoApi /\ dimension = NoDimension

FactoryInit(files) ==
    /\ instances = EmptyRegistry
    /\ lock = ""
    /\ config_cache = NoCache
    /\ file \in files
    /\ pc = [t \in Threads |-> "idle"]
    /\ call = [t \in Threads |-> ReqNone("ocr")]
    /\ res = [t \in Threads |-> NoRes]
    /\ clearedSince = [t \in Threads |-> FALSE]
    /\ built = {}
    /\ ncalls = 0
    /\ loads = 0

Init == FactoryInit(FileStates) /\ ConnIdle

\* get_connector 62-66: the key, and the unlocked membership test; a thread
\* that found the key goes on to line 75 ("hit") past the with block
GetConnectorCheck(t, r) ==
    /\ pc[t] = "idle"
    /\ ncalls < MaxCalls
    /\ ncalls' = ncalls + 1
    /\ call' = [call EXCEPT ![t] = r]
    /\ res' = [res EXCEPT ![t] = NoRes]
    /\ clearedSince' = [clearedSince EXCEPT ![t] = FALSE]
    /\ pc' = [pc EXCEPT ![t] = IF KeyOf(r) \in DOMAIN instances THEN "hit" ELSE "acquire"]
    /\ UNCHANGED <<instances, lock, config_cache, file, built, loads>>
    /\ UNCHANGED connVars

\* get_connector 67: with cls._lock
GetConnectorAcquire(t) ==
    /\ pc[t] = "acquire"
    /\ lock = ""
    /\ lock' = t
    /\ pc' = [pc EXCEPT ![t] = "locked"]
    /\ UNCHANGED <<instances, config_cache, file, call, res, clearedSince, built, ncalls, loads>>
    /\ UNCHANGED connVars

\* No second test: the key is taken to be absent, as the first test found it.
still_absent_unchecked(key) == TRUE

\* get_connector 69: the second membership test, under the lock
still_absent(key) == key \notin DOMAIN instances

\* A lock that stays with its holder when an exception leaves the block.
lock_kept_on_error(t, raised) == IF raised THEN t ELSE ""

\* with cls._lock (67): the lock is released as the block is left, by its
\* last statement or by an exception
lock_on_exit(t, raised) == ""

\* get_connector 69-73 and the release of the lock as the with block is left,
\* by the assignment or by the exception of _create_connector
GetConnectorLocked(t) ==
    /\ pc[t] = "locked"
    /\ lock' = lock_on_exit(t, still_absent(KeyOf(call[t]))
                                /\ create_connector(call[t].st, call[t].hasCfg, call[t].cfg,
                                                    Cardinality(built) + 1).exc # "")
    /\ LET key == KeyOf(call[t])
           c == create_connector(call[t].st, call[t].hasCfg, call[t].cfg,
                                 Cardinality(built) + 1)
       IN  IF ~still_absent(key)
           THEN /\ pc' = [pc EXCEPT ![t] = "return"]
                /\ UNCHANGED <<instances, config_cache, res, built, loads>>
           ELSE IF c.exc = ""
           THEN /\ instances' = Store(instances, key, c.inst)
                /\ built' = built \cup {[id |-> c.inst.id, key |-> key]}
                /\ config_cache' = c.cache
                /\ loads' = IF c.read THEN loads + 1 ELSE loads
                /\ pc' = [pc EXCEPT ![t] = "return"]
                /\ UNCHANGED res
           ELSE /\ res' = [res EXCEPT ![t] = Raised(c.exc, c.final)]
                /\ config_cache' = c.cache
                /\ loads' = IF c.read THEN loads + 1 ELSE loads
                /\ pc' = [pc EXCEPT ![t] = "idle"]
                /\ UNCHANGED <<instances, built>>
    /\ UNCHANGED <<file, call, clearedSince, ncalls>>
    /\ UNCHANGED connVars

\* get_connector 75: return cls._instances[cache_key], outside the lock
GetConnectorReturn(t) ==
    /\ pc[t] \in {"return", "hit"}
    /\ res' = [res EXCEPT ![t] =
                  IF KeyOf(call[t]) \in DOMAIN instances
                  THEN Returned(instances[KeyOf(call[t])])
                  ELSE Raised("KeyError", <<>>)]
    /\ pc' = [pc EXCEPT ![t] = "idle"]
    /\ UNCHANGED <<instances, lock, config_cache, file, call, clearedSince, built, ncalls, loads>>
    /\ UNCHANGED connVars

\* A reload that keeps the parsed document.
reloaded_cache_kept == config_cache

\* reload_config 239: cls._config_cache = None
reloaded_cache == NoCache

\* reload_config 238-239: the lock is taken and the cache dropped
ReloadConfigEnter(t) ==
    /\ pc[t] = "idle"
    /\ lock = ""
    /\ lock' = t
    /\ config_cache' = reloaded_cache
    /\ loads' = 0
    /\ pc' = [pc EXCEPT ![t] = "reload"]
    /\ UNCHANGED <<instances, file, call, res, clearedSince, built, ncalls>>
    /\ UNCHANGED connVars

\* reload_config 240-241: cls._instances.clear(), and the lock released
ReloadConfigClear(t) ==
    /\ pc[t] = "reload"
    /\ instances' = EmptyRegistry
    /\ clearedSince' = [u \in Threads |-> TRUE]
    /\ lock' = ""
    /\ pc' = [pc EXCEPT ![t] = "idle"]
    /\ UNCHANGED <<config_cache, file, call, res, built, ncalls, loads>>
    /\ UNCHANGED connVars

\* clear_instances 260: with cls._lock
ClearInstancesEnter(t) ==
    /\ pc[t] = "idle"
    /\ lock = ""
    /\ lock' = t
    /\ pc' = [pc EXCEPT ![t] = "clear"]
    /\ UNCHANGED <<instances, config_cache, file, call, res, clearedSince, built, ncalls, loads>>
    /\ UNCHANGED connVars

\* A clear_instances that drops the parsed document too.
cleared_cache_dropped == NoCache

\* clear_instances 260-262 has no statement on cls._config_cache
cleared_cache == config_cache

\* clear_instances 261-262: cls._instances.clear(), and the lock released
ClearInstancesClear(t) ==
    /\ pc[t] = "clear"
    /\ instances' = EmptyRegistry
    /\ config_cache' = cleared_cache
    /\ clearedSince' = [u \in Threads |-> TRUE]
    /\ lock' = ""
    /\ pc' = [pc EXCEPT ![t] = "idle"]
    /\ UNCHANGED <<file, call, res, built, ncalls, loads>>
    /\ UNCHANGED connVars

\* The configuration file is written, replaced or removed by the environment.
FileChange(f) ==
    /\ f # file
    /\ file' = f
    /\ UNCHANGED <<instances, lock, config_cache, pc, call, res, clearedSince, built, ncalls, loads>>
    /\ UNCHANGED connVars



Next ==
    \/ \E t \in Threads, r \in ConcRequests : GetConnectorCheck(t, r)
    \/ \E t \in Threads : GetConnectorAcquire(t)
    \/ \E t \in Threads : GetConnectorLocked(t)
    \/ \E t \in Threads : GetConnectorReturn(t)
    \/ \E t \in Threads : ReloadConfigEnter(t)
    \/ \E t \in Threads : ReloadConfigClear(t)
    \/ \E t \in Threads : ClearInstancesEnter(t)
    \/ \E t \in Threads : ClearInstancesClear(t)
    \/ \E f \in FileStates : FileChange(f)

Spec == Init /\ [][Next]_vars

\* Calls made one after the other: a call begins only when no other is under way.
AllIdle == \A t \in Threads : pc[t] = "idle"

SeqNext ==
    \/ AllIdle /\ \E t \in Threads, r \in Requests : GetConnectorCheck(t, r)
    \/ \E t \in Threads : GetConnectorAcquire(t)
    \/ \E t \in Threads : GetConnectorLocked(t)
    \/ \E t \in Threads : GetConnectorReturn(t)
    \/ AllIdle /\ \E t \in Threads : ReloadConfigEnter(t)
    \/ \E t \in Threads : ReloadConfigClear(t)
    \/ AllIdle /\ \E t \in Threads : ClearInstancesEnter(t)
    \/ \E t \in Threads : ClearInstancesClear(t)
    \/ \E f \in FileStates : FileChange(f)

SeqSpec == Init /\ [][SeqNext]_vars

\* Calls made one after the other whose configurations are a resolved default
\* given explicitly, or differ from one another in one nested setting only
KeyRequests ==
    {ReqNone("ocr"), Req("ocr", get_default_config("ocr")),
     Req("ocr", CfgTess), Req("ocr", CfgTessB), Req("OCR", CfgTess),
     Req("ocr", <<>>)}

KeyNext ==
    \/ AllIdle /\ \E t \in Threads, r \in KeyRequests : GetConnectorCheck(t, r)
    \/ \E t \in Threads : GetConnectorAcquire(t)
    \/ \E t \in Threads : GetConnectorLocked(t)
    \/ \E t \in Threads : GetConnectorReturn(t)
    \/ AllIdle /\ \E t \in Threads : ReloadConfigEnter(t)
    \/ \E t \in Threads : ReloadConfigClear(t)
    \/ AllIdle /\ \E t \in Threads : ClearInstancesEnter(t)
    \/ \E t \in Threads : ClearInstancesClear(t)
    \/ \E f \in FileStates : FileChange(f)

KeySpec == Init /\ [][KeyNext]_vars

\* Concurrent calls, one whose construction succeeds and one whose
\* construction fails, with reload_config and clear_instances, under a fair
\* scheduler: a thread that can take a step takes it, and a thread waiting
\* for the lock gets it if it is free again and again.
LiveRequests == {Req("ocr", CfgTess), Req("ocr", CfgNope), ReqNone("ocr")}

LiveNext ==
    \/ \E t \in Threads, r \in LiveRequests : GetConnectorCheck(t, r)
    \/ \E t \in Threads : GetConnectorAcquire(t)
    \/ \E t \in Threads : GetConnectorLocked(t)
    \/ \E t \in Threads : GetConnectorReturn(t)
    \/ \E t \in Threads : ReloadConfigEnter(t)
    \/ \E t \in Threads : ReloadConfigClear(t)
    \/ \E t \in Threads : ClearInstancesEnter(t)
    \/ \E t \in Threads : ClearInstancesClear(t)

LiveInit ==
    FactoryInit({[kind |-> "absent", doc |-> <<>>], [kind |-> "empty", doc |-> <<>>]})
    /\ ConnIdle

LiveSpec ==
    /\ LiveInit /\ [][LiveNext]_vars
    /\ \A t \in Threads :
          /\ SF_vars(GetConnectorAcquire(t))
          /\ WF_vars(GetConnectorLocked(t))
          /\ WF_vars(GetConnectorReturn(t))
          /\ WF_vars(ReloadConfigClear(t))
          /\ WF_vars(ClearInstancesClear(t))


\* get_connector and the file only: no reload_config, no clear_instances
NoClearNext ==
    \/ \E t \in Threads, r \in ConcRequests : GetConnectorCheck(t, r)
    \/ \E t \in Threads : GetConnectorAcquire(t)
    \/ \E t \in Threads : GetConnectorLocked(t)
    \/ \E t \in Threads : GetConnectorReturn(t)
    \/ \E f \in FileStates : FileChange(f)

NoClearSpec == Init /\ [][NoClearNext]_vars

-----------------------------------------------------------------------------
(* Properties of the factory *)

\* dict equality: the same keys with equal values, whatever the insertion order
RECURSIVE ContentEq(_, _)
ContentEq(a, b) ==
    /\ Keys(a) = Keys(b)
    /\ \A k \in Keys(a) :
          LET x == Item(a, k)
              y == Item(b, k)
          IN  x.kind = y.kind /\ x.s = y.s /\ x.n = y.n /\ ContentEq(x.sub, y.sub)

\* t's last call has returned a connector and _instances was not cleared since
\* that call began
Got(t) == pc[t] = "idle" /\ res[t].kind = "inst" /\ ~clearedSince[t]

Explicit(r) == r.hasCfg /\ Truthy(r.cfg)

\* C1: two get_connector calls for the same service type whose configurations
\* are equal in content (whatever the insertion order of their keys, at the top
\* level or in the provider section), with no reload_config / clear_instances
\* since the first began, return the identical instance.
C1_IdempotentCaching ==
    \A t, u \in Threads :
        (Got(t) /\ Got(u) /\ call[t].st = call[u].st
           /\ Explicit(call[t]) /\ Explicit(call[u])
           /\ ContentEq(call[t].cfg, call[u].cfg))
        => res[t].inst = res[u].inst

\* C2: with no reload_config / clear_instances, under every interleaving of
\* get_connector calls a cache key is constructed at most once, the registry
\* holds for it the one connector constructed, and all callers of that key
\* receive that connector.
C2_ConstructedOnce ==
    /\ \A b, c \in built : b.key = c.key => b.id = c.id
    /\ \A k \in DOMAIN instances : [id |-> instances[k].id, key |-> k] \in built
    /\ \A t, u \in Threads :
          (Got(t) /\ Got(u) /\ KeyOf(call[t]) = KeyOf(call[u]))
          => res[t].inst = res[u].inst

\* Contention: a thread that found the key absent at its first test holds the
\* lock and is about to test again, the other having constructed the key in
\* the meantime and returned it.
C2_Witness ==
    \E t, u \in Threads :
        /\ pc[t] = "locked" /\ call[t] = Req("ocr", CfgTess)
        /\ Got(u) /\ call[u] = Req("ocr", CfgTess)
        /\ KeyOf(call[t]) \in DOMAIN instances
        /\ Cardinality(built) = 1

\* C3: under every interleaving with reload_config / clear_instances, no
\* get_connector call fails on its final read of the registry for want of the
\* key it found or stored.
C3_NoMissingKey == \A t \in Threads : res[t].err # "KeyError"

\* C5: a get_connector call whose connector class raises on its final_config
\* raises ConfigurationError; the step that ends a call in an exception leaves
\* the registry as it was; the registry never holds a connector whose
\* construction raises, so the failed key stays absent and the next call with
\* that configuration constructs again.
C5_FailureState ==
    /\ \A t \in Threads :
          (res[t].kind = "error" /\ Truthy(res[t].final)
             /\ new_connector(connector_map(call[t].st), res[t].final, 0).exc # "")
          => /\ res[t].err = "ConfigurationError"
             /\ (Explicit(call[t]) => KeyOf(call[t]) \notin DOMAIN instances)
    /\ \A t \in Threads :
          (res[t].kind = "error" /\ res[t].err \notin {"ConfigurationError", "KeyError"})
          => ~Truthy(res[t].final)
    /\ \A k \in DOMAIN instances :
          /\ instances[k].provider # ""
          /\ new_connector(instances[k].cls, instances[k].config, 0).exc = ""

C5_FailureStep ==
    \A t \in Threads :
        (res'[t].kind = "error" /\ res[t].kind # "error") => instances' = instances

C5_ConstructionFailure == []C5_FailureState /\ [][C5_FailureStep]_vars

\* Two calls with the same configuration both went through construction, both
\* raised ConfigurationError, and nothing is cached.
C5_Witness ==
    /\ \A t \in Threads :
          /\ pc[t] = "idle"
          /\ call[t] = Req("embedding", CfgOpenAINoKey)
          /\ res[t].err = "ConfigurationError"
          /\ res[t].final = CfgOpenAINoKey
    /\ instances = EmptyRegistry

\* C8: two get_connector calls for the same service type with explicit
\* configurations that differ in content return two distinct connectors, each
\* (for a non-empty configuration) built from the configuration of its call.
C8_CachePartitioning ==
    \A t, u \in Threads :
        (Got(t) /\ Got(u) /\ call[t].st = call[u].st
           /\ call[t].hasCfg /\ call[u].hasCfg
           /\ ~ContentEq(call[t].cfg, call[u].cfg))
        => /\ res[t].inst.id # res[u].inst.id
           /\ Explicit(call[t]) => ContentEq(res[t].inst.config, call[t].cfg)
           /\ Explicit(call[u]) => ContentEq(res[u].inst.config, call[u].cfg)

\* Two configurations that differ in a nested setting only, each with its own
\* connector.
C8_Witness ==
    /\ Got("t1") /\ call["t1"] = Req("ocr", CfgTess)
    /\ Got("t2") /\ call["t2"] = Req("ocr", CfgTessB)
    /\ res["t1"].inst.id # res["t2"].inst.id

\* What a connector built without explicit config is to be built from when the
\* file is read now: the section of the document, the defaults when there is
\* no file or it cannot be read or parsed.
FreshConfig(f, st) ==
    IF f.kind = "map" THEN Get(f.doc, st \o "_service", M("", <<>>)).sub
    ELSE get_default_config(st)

\* C9: when reload_config returns, _config_cache is None and _instances is
\* empty; and a get_connector without explicit config that constructs while
\* _config_cache is None builds a connector that did not exist before, from the
\* file as it is at that step.
C9_ReloadStep ==
    \A t \in Threads :
        (pc[t] = "reload" /\ pc'[t] = "idle")
        => (config_cache' = NoCache /\ instances' = EmptyRegistry)

C9_BuildStep ==
    \A t \in Threads :
        (pc[t] = "locked" /\ pc'[t] = "return" /\ ~Explicit(call[t])
           /\ config_cache = NoCache /\ instances' # instances)
        => LET new == instances'[KeyOf(call[t])]
           IN  /\ new.id \notin {b.id : b \in built}
               /\ new.config = FreshConfig(file, call[t].st)

C9_ReloadClearsState == [][C9_ReloadStep /\ C9_BuildStep]_vars

\* A connector built from DocA's section, then a reload, then a connector
\* built from DocB's section for the same call.
C9_Witness ==
    \E t, u \in Threads :
        /\ pc[t] = "idle" /\ res[t].kind = "inst" /\ clearedSince[t]
        /\ call[t] = ReqNone("ocr") /\ res[t].inst.config = FreshConfig([kind |-> "map", doc |-> DocA], "ocr")
        /\ Got(u) /\ call[u] = ReqNone("ocr")
        /\ res[u].inst.config = FreshConfig([kind |-> "map", doc |-> DocB], "ocr")
        /\ config_cache = [kind |-> "map", doc |-> DocB]

-----------------------------------------------------------------------------
(* Exceptions and the network *)

\* the direct base classes of the exception classes in use: requests.exceptions,
\* the taxonomy of errors.py, and builtins
Bases(c) ==
    CASE c = "requests.ConnectTimeout" -> {"requests.ConnectionError", "requests.Timeout"}
      [] c = "requests.ReadTimeout" -> {"requests.Timeout"}
      [] c \in {"requests.Timeout", "requests.ConnectionError", "requests.HTTPError",
                "requests.JSONDecodeError"} -> {"requests.RequestException"}
      [] c = "requests.RequestException" -> {"Exception"}
      [] c \in Taxonomy -> {"ConnectorError"}
      [] c \in {"ConnectorError", "ValueError", "AttributeError", "RuntimeError",
                "KeyError", "TypeError"} -> {"Exception"}
      [] OTHER -> {}

\* isinstance(e, cls) for an exception e of class exc
RECURSIVE IsInstance(_, _)
IsInstance(exc, cls) == exc = cls \/ \E b \in Bases(exc) : IsInstance(b, cls)

\* What one HTTP request meets: an answer with status 200 and a JSON body, an
\* answer with an error status, no answer in time, a refused connection, a
\* status 200 whose body is no JSON.
Net == {"200", "500", "timeout", "refused", "badjson"}

\* requests.get / requests.post, then response.raise_for_status(), then
\* response.json(): the requests exception raised, "" for none
http_json(net) ==
    CASE net = "timeout" -> "requests.ReadTimeout"
      [] net = "refused" -> "requests.ConnectionError"
      [] net = "500" -> "requests.HTTPError"
      [] net = "badjson" -> "requests.JSONDecodeError"
      [] OTHER -> ""

\* requests.get alone, no status check and no body read
http_get(net) ==
    CASE net = "timeout" -> "requests.ReadTimeout"
      [] net = "refused" -> "requests.ConnectionError"
      [] OTHER -> ""

-----------------------------------------------------------------------------
(* BaseConnector._call_api, base.py 97-165 *)

\* stop=stop_after_attempt(3)
stop_after_attempt == 3

\* A predicate that asks for another attempt after every exception.
retry_if_any_exception(exc) == TRUE

\* retry=retry_if_exception_type((requests.exceptions.Timeout,
\*                                requests.exceptions.ConnectionError))
retry_if_exception_type(exc) ==
    IsInstance(exc, "requests.Timeout") \/ IsInstance(exc, "requests.ConnectionError")

\* The function body, 132-165: the exception that leaves it for what the
\* request met, "" when it returns response.json()
call_api_body(net) ==
    LET raw == http_json(net)
    IN  IF raw = "" THEN ""
        ELSE IF IsInstance(raw, "requests.Timeout") THEN "ConnectionError"
        ELSE IF IsInstance(raw, "requests.ConnectionError") THEN "ConnectionError"
        ELSE IF IsInstance(raw, "requests.HTTPError") THEN "ProcessingError"
        ELSE "ProcessingError"

\* The endpoints a call is made against: what the k-th request to it meets.
Servers == {"ok", "timeout", "refused", "500", "badjson", "flaky"}

Meets(server, k) ==
    CASE server = "ok" -> "200"
      [] server = "flaky" -> IF k = 1 THEN "timeout" ELSE "200"
      [] OTHER -> server

\* _call_api is entered: tenacity starts with attempt number 1
CallApiStart(server, method) ==
    /\ conn # NoInst
    /\ api.pc # "try"
    /\ api' = [pc |-> "try", server |-> server, method |-> method,
               attempt_number |-> 1, requests |-> 0, exc |-> ""]
    /\ UNCHANGED <<factoryVars, conn, out, dimension>>

\* One attempt: the body runs, and tenacity decides on what left it.  An
\* exception the retry predicate does not match is re-raised at once; one it
\* matches is re-raised when the stop condition holds (reraise=True), and
\* otherwise the call sleeps and tries again.
CallApiAttempt ==
    /\ api.pc = "try"
    /\ LET exc == call_api_body(Meets(api.server, api.requests + 1))
           sent == [api EXCEPT !.requests = @ + 1]
       IN  IF exc = "" \/ ~retry_if_exception_type(exc)
              \/ api.attempt_number >= stop_after_attempt
           THEN api' = [sent EXCEPT !.pc = "done", !.exc = exc]
           ELSE api' = [sent EXCEPT !.attempt_number = @ + 1]
    /\ UNCHANGED <<factoryVars, conn, out, dimension>>

-----------------------------------------------------------------------------
(* BaseConnector.health_check and the providers' probes *)

\* hasattr(self.provider, 'health_check'): the five providers of the package
\* have one; "NoProbe" stands for a provider object without it
has_health_check(provider) == provider # "NoProbe"

\* provider.health_check(): [exc |-> the exception that leaves it or "",
\* flag |-> the value returned].  The probes of the package catch Exception
\* themselves; "RaisingProbe" stands for a provider whose probe raises.
provider_health_check(provider, net) ==
    CASE provider \in {"LocalTesseractProvider", "HuggingFaceEmbedding"} ->
            [exc |-> "", flag |-> http_get(net) = "" /\ net \in {"200", "badjson"}]
      [] provider = "OllamaEmbedding" ->
            [exc |-> "", flag |-> http_get(net) = "" /\ net = "200"]
      [] provider = "OpenAIEmbedding" -> [exc |-> "", flag |-> net = "200"]
      [] provider = "InternalChunker" -> [exc |-> "", flag |-> TRUE]
      [] OTHER -> [exc |-> "RuntimeError", flag |-> FALSE]

\* timeout=5 of the probes that call requests.get themselves
health_timeout == 5

\* The timeout the probe's request is made with, 0 for a probe that makes no
\* request.  OpenAIEmbedding.health_check calls _embed_batch, whose client was
\* built with timeout=self.timeout = config.get('timeout', 60).
probe_timeout(provider, section) ==
    CASE provider \in {"LocalTesseractProvider", "HuggingFaceEmbedding", "OllamaEmbedding"}
            -> health_timeout
      [] provider = "OpenAIEmbedding" -> Get(section, "timeout", N("timeout", 60)).n
      [] OTHER -> 0

\* A health check without the except clause.
health_check_unguarded(provider, net) ==
    IF has_health_check(provider) THEN provider_health_check(provider, net)
    ELSE [exc |-> "", flag |-> TRUE]

\* BaseConnector.health_check, 177-186
health_check(provider, net) ==
    LET probe == provider_health_check(provider, net)
    IN  IF ~has_health_check(provider) THEN [exc |-> "", flag |-> TRUE]
        ELSE IF probe.exc = "" THEN probe
        ELSE IF IsInstance(probe.exc, "Exception") THEN [exc |-> "", flag |-> FALSE]
        ELSE probe

HealthCheck(net) ==
    /\ conn # NoInst
    /\ LET r == health_check(conn.provider, net)
       IN  out' = [NoOut EXCEPT !.op = "health_check", !.net = net,
                                !.kind = IF r.exc = "" THEN "value" ELSE "raised",
                                !.exc = r.exc, !.flag = r.flag,
                                !.timeout =
                                    IF has_health_check(conn.provider)
                                    THEN probe_timeout(conn.provider,
                                             provider_config(conn.config, conn.provider).sub)
                                    ELSE 0]
    /\ UNCHANGED <<factoryVars, conn, api, dimension>>

-----------------------------------------------------------------------------
(* BaseConnector.get_provider_info, 188-210 *)

Sensitive == {"api_key", "secret_key", "password", "token", "access_token"}

\* {k: v for k, v in section.items() if k not in [...]}
redacted(section) == SelectSeq(section, LAMBDA e : e.k \notin Sensitive)

\* [exc, info]: the dict returned; .items() of a section that is no dict raises
get_provider_info(config) ==
    LET pt == provider_type(config)
        section == Get(config, pt.s, M(pt.s, <<>>))
    IN  IF pt.kind # "str" \/ section.kind # "map"
        THEN [exc |-> "AttributeError", info |-> <<>>]
        ELSE [exc |-> "",
              info |-> <<S("type", pt.s), M("config", redacted(section.sub)),
                         [timeout(config) EXCEPT !.k = "timeout"],
                         [max_retries(config) EXCEPT !.k = "max_retries"]>>]

GetProviderInfo ==
    /\ conn # NoInst
    /\ LET r == get_provider_info(conn.config)
       IN  out' = [NoOut EXCEPT !.op = "get_provider_info",
                                !.kind = IF r.exc = "" THEN "value" ELSE "raised",
                                !.exc = r.exc, !.info = r.info]
    /\ UNCHANGED <<factoryVars, conn, api, dimension>>

-----------------------------------------------------------------------------
(* The providers' operations *)

\* A text is a sequence of pieces: " " is a run of whitespace, any other
\* piece is a run of characters without whitespace.
Space == " "

\* not text or len(text.strip()) == 0
blank(text) == \A i \in 1..Len(text) : text[i] = Space

\* InternalChunker._tokenize, internal.py 77-94: adjacent pieces without
\* whitespace between them are one token
RECURSIVE split(_, _)
split(text, cur) ==
    IF text = <<>> THEN (IF cur = "" THEN <<>> ELSE <<cur>>)
    ELSE IF Head(text) = Space
         THEN (IF cur = "" THEN <<>> ELSE <<cur>>) \o split(Tail(text), "")
         ELSE split(Tail(text), cur \o Head(text))

\* A tokenizer that does not strip the text: whitespace at its start leaves
\* an empty first token.
tokenize_unstripped(text) ==
    IF text # <<>> /\ Head(text) = Space THEN <<"">> \o split(text, "")
    ELSE split(text, "")

tokenize(text) == split(text, "")

\* ' '.join(tokens)
RECURSIVE join(_)
join(tokens) ==
    IF tokens = <<>> THEN ""
    ELSE IF Len(tokens) = 1 THEN tokens[1]
    ELSE tokens[1] \o " " \o join(Tail(tokens))

Min(a, b) == IF a < b THEN a ELSE b

\* A loop that steps by a whole window.
RECURSIVE windows_apart(_, _, _, _)
windows_apart(tokens, i, chunk_size, stride) ==
    LET chunk == SubSeq(tokens, i + 1, Min(i + chunk_size, Len(tokens)))
        here == IF chunk # <<>> THEN <<join(chunk)>> ELSE <<>>
    IN  IF i + chunk_size >= Len(tokens) THEN here
        ELSE here \o windows_apart(tokens, i + chunk_size, chunk_size, stride)

\* the loop of chunk_text, 64-73, from index i (0-based) on
RECURSIVE windows(_, _, _, _)
windows(tokens, i, chunk_size, stride) ==
    LET chunk == SubSeq(tokens, i + 1, Min(i + chunk_size, Len(tokens)))
        here == IF chunk # <<>> THEN <<join(chunk)>> ELSE <<>>
    IN  IF i + chunk_size >= Len(tokens) \/ i + stride >= Len(tokens) THEN here
        ELSE here \o windows(tokens, i + stride, chunk_size, stride)

\* InternalChunker.chunk_text, internal.py 30-75, on the section the chunker
\* was built from (its __init__ only stores chunk_size and chunk_overlap)
chunk_text(section, text, kwargs) ==
    LET chunk_size == Get(kwargs, "chunk_size",
                          Get(section, "chunk_size", N("chunk_size", 512)))
        chunk_overlap == Get(kwargs, "chunk_overlap",
                             Get(section, "chunk_overlap", N("chunk_overlap", 50)))
        tokens == tokenize(text)
    IN  IF blank(text) THEN [exc |-> "", list |-> <<>>]
        ELSE IF chunk_size.kind # "int" THEN [exc |-> "TypeError", list |-> <<>>]
        ELSE IF chunk_size.n <= 0 THEN [exc |-> "ValueError", list |-> <<>>]
        ELSE IF chunk_overlap.kind # "int" THEN [exc |-> "TypeError", list |-> <<>>]
        ELSE IF chunk_overlap.n < 0 \/ chunk_overlap.n >= chunk_size.n
             THEN [exc |-> "ValueError", list |-> <<>>]
        ELSE IF Len(tokens) <= chunk_size.n
             THEN [exc |-> "", list |-> <<join(tokens)>>]
        ELSE [exc |-> "",
              list |-> windows(tokens, 0, chunk_size.n, chunk_size.n - chunk_overlap.n)]

\* An image is <<>> (no bytes), <<"bad">> (bytes PIL rejects) or other bytes.
\* LocalTesseractProvider.extract_text, local_tesseract.py 32-86
extract_text(image_data, net) ==
    LET raw == http_json(net)
    IN  IF image_data = <<>> THEN [exc |-> "ValueError", list |-> <<>>]
        ELSE IF image_data = <<"bad">> THEN [exc |-> "ValueError", list |-> <<>>]
        ELSE IF raw = "" THEN [exc |-> "", list |-> <<"text">>]
        ELSE IF IsInstance(raw, "requests.ConnectionError")
                \/ IsInstance(raw, "requests.Timeout")
                \/ IsInstance(raw, "requests.RequestException")
             THEN [exc |-> "Exception", list |-> <<>>]
        ELSE [exc |-> raw, list |-> <<>>]

\* _embed_batch of the three embedding providers: the exception that leaves
\* it, "" for none.  OpenAI wraps everything; the other two wrap connection
\* errors and timeouts and let the rest through.
embed_batch(provider, net) ==
    LET raw == http_json(net)
    IN  IF raw = "" THEN ""
        ELSE IF provider = "OpenAIEmbedding" THEN "Exception"
        ELSE IF IsInstance(raw, "requests.ConnectionError")
                \/ IsInstance(raw, "requests.Timeout") THEN "Exception"
        ELSE raw

\* [str(t).strip() for t in texts if t]
cleaned(texts) == SelectSeq(texts, LAMBDA t : t # "")

\* embed of the three embedding providers (the same code in each): one
\* vector for each text that is kept
embed(provider, texts, net) ==
    LET kept == cleaned(texts)
        raised == embed_batch(provider, net)
    IN  IF texts = <<>> THEN [exc |-> "", list |-> <<>>]
        ELSE IF kept = <<>> THEN [exc |-> "ValueError", list |-> <<>>]
        ELSE IF raised # "" /\ IsInstance(raised, "Exception")
             THEN [exc |-> "Exception", list |-> <<>>]
        ELSE [exc |-> "", list |-> [i \in 1..Len(kept) |-> "vec:" \o kept[i]]]

\* The HTTP requests extract_text sends, 62-70: one, when the image got past
\* the two checks before it; nothing around the request sends it again
extract_text_requests(image_data, net) ==
    IF image_data = <<>> \/ image_data = <<"bad">> THEN 0 ELSE 1

\* The requests one _embed_batch sends for a batch: Ollama posts once for each
\* text and stops at the first that fails, the other two send the batch whole
embed_batch_requests(provider, batch, net) ==
    IF provider = "OllamaEmbedding" /\ http_json(net) = "" THEN Len(batch) ELSE 1

\* texts[i:i + self.batch_size] for i in range(0, len(texts), self.batch_size),
\* from index i (0-based) on
RECURSIVE batches(_, _, _)
batches(texts, i, batch_size) ==
    IF i >= Len(texts) THEN <<>>
    ELSE <<SubSeq(texts, i + 1, Min(i + batch_size, Len(texts)))>>
         \o batches(texts, i + batch_size, batch_size)

RECURSIVE SumRequests(_, _, _)
SumRequests(provider, bs, net) ==
    IF bs = <<>> THEN 0
    ELSE embed_batch_requests(provider, Head(bs), net)
         + SumRequests(provider, Tail(bs), net)

\* The requests embed sends: batch after batch, ended by the first exception
embed_requests(provider, section, texts, net) ==
    LET kept == cleaned(texts)
        batch_size == Get(section, "batch_size", N("batch_size", 16)).n
        bs == batches(kept, 0, batch_size)
    IN  IF kept = <<>> THEN 0
        ELSE IF embed_batch(provider, net) # ""
             THEN embed_batch_requests(provider, bs[1], net)
        ELSE SumRequests(provider, bs, net)

process_requests(c, data, net) ==
    CASE c.cls = "OCRConnector" -> extract_text_requests(data, net)
      [] c.cls = "ChunkingConnector" -> 0
      [] OTHER -> embed_requests(c.provider, provider_config(c.config, c.provider).sub,
                                 data, net)

\* process of the three connectors: each hands its arguments to its provider
\* and returns what the provider returns
process(c, data, kwargs, net) ==
    CASE c.cls = "OCRConnector" -> extract_text(data, net)
      [] c.cls = "ChunkingConnector" ->
             chunk_text(provider_config(c.config, c.provider).sub, data, kwargs)
      [] OTHER -> embed(c.provider, data, net)

\* the arguments process is called with
Inputs(cls) ==
    CASE cls = "OCRConnector" -> {<<>>, <<"bad">>, <<"img">>}
      [] cls = "ChunkingConnector" ->
             {<<>>, <<Space>>, <<"a", Space, "b">>, <<"a", "b", Space, "c">>,
              <<Space, "a", Space, "b", Space, "c", Space, "d", Space>>}
      [] cls = "EmbeddingConnector" -> {<<>>, <<"">>, <<"a", "", "b">>}
      [] OTHER -> {}

Kwargs(cls) ==
    IF cls = "ChunkingConnector"
    THEN {<<>>, <<N("chunk_size", 0)>>, <<N("chunk_size", 2), N("chunk_overlap", 2)>>,
          <<N("chunk_size", 2), N("chunk_overlap", 0)>>, <<S("chunk_size", "2")>>}
    ELSE {<<>>}

Classes == {"OCRConnector", "ChunkingConnector", "EmbeddingConnector"}

AllInputs == UNION {Inputs(cls) : cls \in Classes}

AllKwargs == UNION {Kwargs(cls) : cls \in Classes}

Process(data, kwargs, net) ==
    /\ conn # NoInst
    /\ data \in Inputs(conn.cls)
    /\ kwargs \in Kwargs(conn.cls)
    /\ LET r == process(conn, data, kwargs, net)
       IN  out' = [NoOut EXCEPT !.op = "process", !.net = net, !.input = data,
                                !.kwargs = kwargs,
                                !.kind = IF r.exc = "" THEN "value" ELSE "raised",
                                !.exc = r.exc, !.list = r.list,
                                !.requests = process_requests(conn, data, net)]
    /\ UNCHANGED <<factoryVars, conn, api, dimension>>

-----------------------------------------------------------------------------
(* Connectors in use *)

CfgChunk ==
    <<S("provider", "internal"),
      M("internal", <<N("chunk_size", 3), N("chunk_overlap", 1)>>)>>

CfgHuggingFace ==
    <<S("provider", "huggingface"),
      M("huggingface", <<S("base_url", "http://tei"), S("api_key", "hf-2")>>)>>

CfgOllama ==
    <<S("provider", "ollama"), M("ollama", <<S("base_url", "http://ollama")>>)>>

\* a credential nested below the top level of the provider section
CfgOpenAIAuth ==
    <<S("provider", "openai"),
      M("openai", <<S("api_key", "sk-1"),
                    M("auth", <<S("token", "tok-9")>>)>>)>>

\* CfgTess with a single attempt asked for
CfgTessOnce == CfgTess \o <<N("max_retries", 1)>>

Constructions ==
    {<<"OCRConnector", CfgTess>>, <<"OCRConnector", CfgTessOnce>>,
     <<"ChunkingConnector", CfgChunk>>,
     <<"EmbeddingConnector", CfgOpenAIKey>>, <<"EmbeddingConnector", CfgOpenAIAuth>>,
     <<"EmbeddingConnector", CfgOpenAINoKey>>,
     <<"EmbeddingConnector", CfgHuggingFace>>, <<"EmbeddingConnector", CfgOllama>>}

\* a connector of the package, as its constructor leaves it
Constructed ==
    {new_connector(c[1], c[2], 1).inst :
        c \in {d \in Constructions : new_connector(d[1], d[2], 1).exc = ""}}

\* a BaseConnector subclass whose _init_provider returns a provider object
\* without a health_check, or one whose health_check raises
Doubles ==
    {[id |-> 1, cls |-> "BaseConnector", config |-> <<S("provider", "custom")>>,
      provider |-> p] : p \in {"NoProbe", "RaisingProbe"}}

ConnInit ==
    /\ FactoryInit({[kind |-> "absent", doc |-> <<>>]})
    /\ conn \in Constructed \cup Doubles
    /\ out = NoOut
    /\ api = NoApi
    /\ dimension = NoDimension

ConnNext ==
    \/ \E server \in Servers, method \in {"GET", "POST"} : CallApiStart(server, method)
    \/ CallApiAttempt
    \/ \E net \in Net : HealthCheck(net)
    \/ GetProviderInfo
    \/ \E net \in Net, data \in AllInputs, kwargs \in AllKwargs :
          Process(data, kwargs, net)

ConnSpec == ConnInit /\ [][ConnNext]_vars

-----------------------------------------------------------------------------
(* The chunker on its own *)

\* the most tokens of a text, the widest window
MaxTokens == 5
MaxChunkSize == 3

Word(i) == "w" \o ToString(i)

\* a text of n different words, one run of whitespace between two words and,
\* when padded, one before the first and one after the last
Text(n, padded) ==
    LET body == [i \in 1..(IF n = 0 THEN 0 ELSE 2 * n - 1) |->
                    IF i % 2 = 1 THEN Word((i + 1) \div 2) ELSE Space]
    IN  IF padded THEN <<Space>> \o body \o <<Space>> ELSE body

\* the texts chunked: up to MaxTokens words, and the 25 words of the
\* documented case
ChunkTexts ==
    {Text(n, padded) : n \in 0..MaxTokens, padded \in BOOLEAN} \cup {Text(25, FALSE)}

\* chunkers built from sections with every chunk_size and chunk_overlap in
\* range, valid or not (the constructor stores them unchecked), and from an
\* empty section
ChunkConfigs ==
    {<<S("provider", "internal"),
       M("internal", <<N("chunk_size", cs), N("chunk_overlap", co)>>)>> :
        cs \in 0..MaxChunkSize, co \in (-1)..MaxChunkSize}
    \cup {<<S("provider", "internal"), M("internal", <<>>)>>}

ChunkKwargs ==
    {<<>>, <<N("chunk_size", 0)>>, <<N("chunk_size", 2)>>, <<N("chunk_overlap", 1)>>,
     <<N("chunk_size", 10), N("chunk_overlap", 3)>>}

ChunkInit ==
    /\ FactoryInit({[kind |-> "absent", doc |-> <<>>]})
    /\ conn \in {new_connector("ChunkingConnector", cfg, 1).inst : cfg \in ChunkConfigs}
    /\ out = NoOut
    /\ api = NoApi
    /\ dimension = NoDimension

\* self.provider.chunk_text(text, **kwargs)
ChunkText(text, kwargs) ==
    /\ conn.provider = "InternalChunker"
    /\ LET r == chunk_text(provider_config(conn.config, conn.provider).sub, text, kwargs)
       IN  out' = [NoOut EXCEPT !.op = "chunk_text", !.input = text, !.kwargs = kwargs,
                                !.kind = IF r.exc = "" THEN "value" ELSE "raised",
                                !.exc = r.exc, !.list = r.list]
    /\ UNCHANGED <<factoryVars, conn, api, dimension>>

ChunkNext == \E text \in ChunkTexts, kwargs \in ChunkKwargs : ChunkText(text, kwargs)

ChunkSpec == ChunkInit /\ [][ChunkNext]_vars

-----------------------------------------------------------------------------
(* The connectivity test, api/routes/service_configs.py 272-358 *)

\* get_connector run from its first line to its last with no other thread
\* in between: [exc, inst, instances, built, cache]
get_connector(service_type, config) ==
    LET key == cache_key(service_type, TRUE, config)
        c == create_connector(service_type, TRUE, config, Cardinality(built) + 1)
    IN  IF key \in DOMAIN instances
        THEN [exc |-> "", inst |-> instances[key], instances |-> instances,
              built |-> built, cache |-> config_cache]
        ELSE IF c.exc # ""
        THEN [exc |-> c.exc, inst |-> NoInst, instances |-> instances,
              built |-> built, cache |-> c.cache]
        ELSE [exc |-> "", inst |-> c.inst, instances |-> Store(instances, key, c.inst),
              built |-> built \cup {[id |-> c.inst.id, key |-> key]}, cache |-> c.cache]

\* test_config, 299-304
test_config(provider, config) ==
    <<S("provider", provider), M(provider, config), N("timeout", 10),
      N("max_retries", 1)>>

\* the except clauses, 332-358, in their order: the status of the
\* HTTPException raised for an exception
status_code(exc) ==
    IF IsInstance(exc, "ProviderNotFoundError") THEN 404
    ELSE IF IsInstance(exc, "ConfigurationError") THEN 400
    ELSE IF IsInstance(exc, "ConnectorError") THEN 503
    ELSE 500

\* what the query parameters are drawn from
ServiceTypes == {"ocr", "OCR", "embedding", "foo"}
Providers == {"tesseract", "openai", "huggingface", "nope"}
ProviderSettings == {<<>>, <<S("api_key", "sk-1")>>, <<S("url", "http://a")>>}

\* The whole handler: the connector from the registry or built and stored,
\* its health check, and for a healthy one its provider info.
TestServiceConnection(service_type, provider, config, net) ==
    /\ ncalls < MaxCalls
    /\ ncalls' = ncalls + 1
    /\ \E g \in {get_connector(Lower(service_type), test_config(provider, config))} :
       \E h \in {health_check(g.inst.provider, net)} :
       \E i \in {get_provider_info(g.inst.config)} :
          LET exc == IF g.exc # "" THEN g.exc
                     ELSE IF h.exc # "" THEN h.exc
                     ELSE IF h.flag THEN i.exc ELSE ""
              asked == [NoOut EXCEPT !.op = "test_service_connection", !.net = net,
                                     !.input = <<service_type, provider>>,
                                     !.kwargs = config]
          IN  /\ instances' = g.instances
              /\ built' = g.built
              /\ config_cache' = g.cache
              /\ conn' = g.inst
              /\ out' = IF exc # ""
                        THEN [asked EXCEPT !.kind = "raised", !.exc = exc,
                                           !.status = status_code(exc)]
                        ELSE [asked EXCEPT !.kind = "value", !.status = 200,
                                           !.flag = h.flag,
                                           !.info = IF h.flag THEN i.info ELSE <<>>]
    /\ UNCHANGED <<lock, file, pc, call, res, clearedSince, loads, api, dimension>>

RouteInit == FactoryInit({[kind |-> "absent", doc |-> <<>>]}) /\ ConnIdle

RouteNext ==
    \E service_type \in ServiceTypes, provider \in Providers,
       config \in ProviderSettings, net \in Net :
        TestServiceConnection(service_type, provider, config, net)

RouteSpec == RouteInit /\ [][RouteNext]_vars

-----------------------------------------------------------------------------
(* Properties of the connectors *)

\* C4: one _call_api against an endpoint that always times out, or always
\* refuses the connection, makes exactly 3 HTTP requests and then raises the
\* taxonomy's ConnectionError.
C4_RetryCeiling ==
    (api.pc = "done" /\ api.server \in {"timeout", "refused"})
        => (api.requests = 3 /\ api.exc = "ConnectionError")

\* a call against such an endpoint that has ended
C4_Ended == api.pc = "done" /\ api.server = "timeout" /\ api.exc = "ConnectionError"

\* C6: health_check never raises and returns a boolean: True when the provider
\* has no probe, False when the probe raises, the probe's result otherwise.
C6_HealthCheckTotal ==
    out.op = "health_check" =>
        LET probe == provider_health_check(conn.provider, out.net)
        IN  /\ out.kind = "value"
            /\ out.exc = ""
            /\ out.flag \in BOOLEAN
            /\ out.flag = IF ~has_health_check(conn.provider) THEN TRUE
                          ELSE IF probe.exc # "" THEN FALSE
                          ELSE probe.flag

\* the health check of a connector whose provider probe raised
C6_Witness ==
    /\ out.op = "health_check"
    /\ conn.provider = "RaisingProbe"
    /\ provider_health_check(conn.provider, out.net).exc # ""
    /\ out.kind = "value"
    /\ out.flag = FALSE

\* the strings among the values of a dict, at any depth
RECURSIVE AllValues(_)
AllValues(d) ==
    UNION {IF d[i].kind = "str" THEN {d[i].s}
           ELSE IF d[i].kind = "map" THEN AllValues(d[i].sub)
           ELSE {} : i \in 1..Len(d)}

\* the values of the keys with a sensitive name, at any depth
RECURSIVE SecretValues(_)
SecretValues(d) ==
    UNION {IF d[i].k \in Sensitive /\ d[i].kind = "str" THEN {d[i].s}
           ELSE IF d[i].kind = "map" THEN SecretValues(d[i].sub)
           ELSE {} : i \in 1..Len(d)}

\* C7: what get_provider_info returns holds the value of no key named api_key,
\* secret_key, password, token or access_token of the configuration, at the
\* top level of the provider section or deeper inside it.
C7_Redaction ==
    (out.op = "get_provider_info" /\ out.kind = "value")
        => SecretValues(conn.config) \cap AllValues(out.info) = {}

\* C10: every exception that leaves a connector's process is an error of the
\* connector taxonomy; no raw provider exception reaches the caller.
C10_TaxonomyOnly ==
    (out.op = "process" /\ out.kind = "raised")
        => IsInstance(out.exc, "ConnectorError")

\* C11: a timeout or a refused connection met by a provider during a
\* connector's process is retried by _call_api and reaches the caller, once
\* the attempts are used up, as the taxonomy's ConnectionError; every other
\* failure is raised at its first occurrence.
C11_TransientRetried ==
    (out.op = "process" /\ out.requests > 0) =>
        IF out.net \in {"timeout", "refused"}
        THEN /\ out.kind = "raised"
             /\ out.exc = "ConnectionError"
             /\ out.requests = stop_after_attempt
        ELSE out.kind = "raised" => out.requests = 1

\* C12: in _call_api a failure that is neither a timeout nor a connection
\* failure (an HTTP error status, a body that is no JSON) is not retried: one
\* HTTP request is made and ProcessingError is raised.
C12_FailFast ==
    (api.pc = "done" /\ api.server \in {"500", "badjson"})
        => (api.requests = 1 /\ api.exc = "ProcessingError")

\* a call that met an error status and has ended
C12_Witness ==
    /\ api.pc = "done"
    /\ api.server = "500"
    /\ api.requests = 1
    /\ api.exc = "ProcessingError"

\* What the last chunk_text call was made with: the chunk_size and
\* chunk_overlap in effect, the number of words of its text.
EffSize ==
    Get(out.kwargs, "chunk_size",
        Get(provider_config(conn.config, conn.provider).sub, "chunk_size",
            N("chunk_size", 512))).n

EffOverlap ==
    Get(out.kwargs, "chunk_overlap",
        Get(provider_config(conn.config, conn.provider).sub, "chunk_overlap",
            N("chunk_overlap", 50))).n

ValidParams == EffSize > 0 /\ EffOverlap >= 0 /\ EffOverlap < EffSize

NWords == CHOOSE n \in 0..25 : \E padded \in BOOLEAN : out.input = Text(n, padded)

\* words a..b of the text with one space between two
RECURSIVE Phrase(_, _)
Phrase(a, b) == IF a >= b THEN Word(a) ELSE Phrase(a, b - 1) \o " " \o Word(b)

\* the run of words a chunk is: <<first, last>>
Span(chunk) ==
    CHOOSE ab \in (1..NWords) \X (1..NWords) : ab[1] <= ab[2] /\ Phrase(ab[1], ab[2]) = chunk

IsRun(chunk) ==
    \E ab \in (1..NWords) \X (1..NWords) : ab[1] <= ab[2] /\ Phrase(ab[1], ab[2]) = chunk

\* C13: for a text of more than chunk_size tokens and valid chunk_size and
\* chunk_overlap, each chunk after the first begins with exactly the last
\* chunk_overlap tokens of the chunk before it, and the last chunk ends at the
\* last token of the text.
C13_OverlapInvariant ==
    (out.op = "chunk_text" /\ ValidParams /\ NWords > EffSize) =>
        /\ out.kind = "value"
        /\ Len(out.list) >= 1
        /\ \A k \in 1..Len(out.list) : IsRun(out.list[k])
        /\ \A k \in 2..Len(out.list) :
              LET before == Span(out.list[k - 1])
                  this == Span(out.list[k])
              IN  /\ this[2] - this[1] + 1 >= EffOverlap
                  /\ this[1] = before[2] - EffOverlap + 1
        /\ Span(out.list[Len(out.list)])[2] = NWords

\* 25 tokens, chunk_size 10, chunk_overlap 3: four chunks
C13_Witness ==
    /\ out.op = "chunk_text"
    /\ out.input = Text(25, FALSE)
    /\ EffSize = 10 /\ EffOverlap = 3
    /\ Len(out.list) = 4
    /\ Span(out.list[2]) = <<8, 17>>
    /\ Span(out.list[4]) = <<22, 25>>

\* C14: whatever the text, empty and blank ones included, a chunk_text whose
\* chunk_size in effect is <= 0, or whose chunk_overlap in effect is negative
\* or >= chunk_size, fails with a validation error and returns no list.
C14_Validation ==
    (out.op = "chunk_text" /\ ~ValidParams)
        => (out.kind = "raised" /\ out.exc = "ValueError")

\* the words of the text with single spaces between them
RECURSIVE Normalized(_)
Normalized(n) ==
    IF n = 0 THEN "" ELSE IF n = 1 THEN Word(1)
    ELSE Normalized(n - 1) \o " " \o Word(n)

\* C15 as stated: a text of at most chunk_size tokens, one of no token
\* included, gives exactly one chunk, the whitespace-normalized text.
C15_ShortInputAsStated ==
    (out.op = "chunk_text" /\ ValidParams /\ NWords <= EffSize)
        => (out.kind = "value" /\ out.list = <<Normalized(NWords)>>)

\* C15 amended: with valid chunk_size and chunk_overlap, a text of at least
\* one and at most chunk_size tokens gives exactly one chunk, the
\* whitespace-normalized text; a text of no token gives the empty list.
C15_ShortInput ==
    (out.op = "chunk_text" /\ ValidParams /\ NWords <= EffSize) =>
        /\ out.kind = "value"
        /\ NWords >= 1 => out.list = <<Normalized(NWords)>>
        /\ NWords = 0 => out.list = <<>>

\* a padded text of two words under a window of three
C15_Witness ==
    /\ out.op = "chunk_text"
    /\ out.input = Text(2, TRUE)
    /\ EffSize = 3 /\ ValidParams
    /\ out.list = <<"w1 w2">>

-----------------------------------------------------------------------------
(* Properties of configuration resolution *)

\* the step in which thread t, holding the lock, resolves the configuration
\* of a call without explicit config for a known service type
Resolves(t) ==
    /\ pc[t] = "locked" /\ pc'[t] # "locked"
    /\ ~Explicit(call[t])
    /\ connector_map(call[t].st) # ""
    /\ KeyOf(call[t]) \notin DOMAIN instances

\* C16: with the ConfigCache empty and the file absent, unreadable,
\* unparsable, empty, or parsed to something that is no mapping, _load_config
\* returns the defaults of the service type, and the get_connector call
\* without explicit config builds its connector from them instead of failing.
C16_LoadStep ==
    \A t \in Threads :
        (Resolves(t) /\ config_cache = NoCache
           /\ file.kind \in {"absent", "unparsable", "empty", "list"})
        => /\ pc'[t] = "return"
           /\ KeyOf(call[t]) \in DOMAIN instances'
           /\ instances'[KeyOf(call[t])].config = get_default_config(call[t].st)

C16_ResolutionNeverRaises == [][C16_LoadStep]_vars

\* C17: when the file was parsed to a document, _load_config returns the
\* section '<service_type>_service' if the document has it and the defaults
\* of the service type if it has not, so that a call without explicit config
\* builds a connector from the defaults when the section is missing.
C17_SectionStep ==
    \A t \in Threads :
        (Resolves(t)
           /\ (config_cache.kind = "map" \/ (config_cache = NoCache /\ file.kind = "map")))
        => LET doc == IF config_cache.kind = "map" THEN config_cache.doc ELSE file.doc
               service_key == call[t].st \o "_service"
               key == KeyOf(call[t])
           IN  IF Has(doc, service_key)
               THEN \/ /\ pc'[t] = "return"
                       /\ instances'[key].config = Item(doc, service_key).sub
                    \/ /\ res'[t].kind = "error"
                       /\ res'[t].final = Item(doc, service_key).sub
               ELSE /\ pc'[t] = "return"
                    /\ key \in DOMAIN instances'
                    /\ instances'[key].config = get_default_config(call[t].st)

C17_SectionOrDefault == [][C17_SectionStep]_vars

-----------------------------------------------------------------------------
(* Scenarios through the factory *)

\* C18: from an empty registry, get_connector('embedding', cfg) with provider
\* openai and no api_key raises ConfigurationError and stores nothing; the
\* next get_connector with the configuration plus an api_key stores its
\* connector under another key than the failed call's, and the registry then
\* holds just that connector, which the call returns.
C18_Failed ==
    \A t \in Threads :
        (call[t] = Req("embedding", CfgOpenAINoKey) /\ res[t].kind = "error")
        => /\ res[t].err = "ConfigurationError"
           /\ KeyOf(call[t]) \notin DOMAIN instances

C18_RetryStep ==
    \A t, u \in Threads :
        (/\ call[t] = Req("embedding", CfgOpenAINoKey) /\ res[t].kind = "error"
         /\ instances = EmptyRegistry
         /\ call[u] = Req("embedding", CfgOpenAIKey)
         /\ pc[u] = "locked" /\ pc'[u] # "locked")
        => /\ pc'[u] = "return"
           /\ KeyOf(call[u]) # KeyOf(call[t])
           /\ DOMAIN instances' = {KeyOf(call[u])}
           /\ instances'[KeyOf(call[u])].config = CfgOpenAIKey

C18_Returned ==
    \A t, u \in Threads :
        (/\ call[t] = Req("embedding", CfgOpenAINoKey) /\ res[t].kind = "error"
         /\ call[u] = Req("embedding", CfgOpenAIKey) /\ Got(u)
         /\ ncalls = 2)
        => /\ DOMAIN instances = {KeyOf(call[u])}
           /\ instances[KeyOf(call[u])] = res[u].inst

C18_FailThenRetry == [](C18_Failed /\ C18_Returned) /\ [][C18_RetryStep]_vars

\* the failed call, then the retry with a key, returned and cached alone
C18_Witness ==
    /\ call["t1"] = Req("embedding", CfgOpenAINoKey)
    /\ res["t1"].kind = "error" /\ res["t1"].err = "ConfigurationError"
    /\ call["t2"] = Req("embedding", CfgOpenAIKey)
    /\ Got("t2")
    /\ ncalls = 2
    /\ DOMAIN instances = {KeyOf(call["t2"])}

\* the service type of the call is not in connector_map, or the provider its
\* explicit configuration names is not in the provider map of the connector
Unregistered(r) ==
    \/ connector_map(r.st) = ""
    \/ /\ Explicit(r)
       /\ provider_type(r.cfg).kind = "str"
       /\ provider_map(connector_map(r.st), Lower(provider_type(r.cfg).s)) = ""

\* C19: a get_connector call for a service type that is not registered, or
\* for a provider name that is not registered for the service type, raises
\* ProviderNotFoundError, and nothing is cached for it.
C19_ProviderNotFound ==
    \A t \in Threads :
        (pc[t] = "idle" /\ res[t].kind # "none" /\ Unregistered(call[t]))
        => /\ res[t].kind = "error"
           /\ res[t].err = "ProviderNotFoundError"
           /\ KeyOf(call[t]) \notin DOMAIN instances

-----------------------------------------------------------------------------
(* Properties of the connectivity test *)

\* what the last test was asked for
AskedClass == connector_map(Lower(out.input[1]))
AskedProvider == provider_map(AskedClass, Lower(out.input[2]))

\* C20: the connectivity test maps a failure to a status by its kind: a
\* service type or provider that is not registered gives 404, a configuration
\* error such as a missing required setting gives 400, a connection error 503,
\* any unexpected error 500; a health check that returns False gives
\* success = False and no exception.
C20_StatusMapping ==
    out.op = "test_service_connection" =>
        /\ (AskedClass = "" \/ AskedProvider = "")
              => (out.kind = "raised" /\ out.status = 404)
        /\ (AskedClass # "" /\ AskedProvider # ""
              /\ provider_init(AskedProvider, M("", out.kwargs)) # "")
              => (out.kind = "raised" /\ out.status = 400)
        /\ (out.kind = "raised" /\ out.exc = "ConnectionError") => out.status = 503
        /\ (out.kind = "raised" /\ ~IsInstance(out.exc, "ConnectorError"))
              => out.status = 500
        /\ (conn # NoInst /\ ~health_check(conn.provider, out.net).flag)
              => (out.kind = "value" /\ out.flag = FALSE)

-----------------------------------------------------------------------------
(* Properties of the factory under concurrent calls *)

\* some thread is inside reload_config between its two statements: the
\* ConfigCache is dropped, the registry not yet cleared
MidReload == \E u \in Threads : pc[u] = "reload"

\* C21: reload_config is atomic for concurrent get_connector calls: none reads
\* the registry (the membership test of line 66, the return of line 75) while
\* the ConfigCache is already dropped and the registry still holds a connector
\* from before the reload, and none returns such a connector.
C21_ReloadStep ==
    \A t \in Threads :
        (MidReload /\ instances # EmptyRegistry)
        => /\ ~(pc[t] = "idle" /\ pc'[t] = "hit")
           /\ ~(pc[t] \in {"return", "hit"} /\ pc'[t] = "idle" /\ res'[t].kind = "inst")

C21_ReloadAtomic == [][C21_ReloadStep]_vars

\* C22: a get_connector call that finds its key in the registry returns the
\* cached connector without taking the lock, without constructing and without
\* reading the file, leaves the registry and the ConfigCache as they are, and
\* is not held up by a thread that has the lock.
C22_HitStep ==
    \A t \in Threads :
        /\ (pc[t] = "idle" /\ pc'[t] \notin {"idle", "reload", "clear"}
              /\ KeyOf(call'[t]) \in DOMAIN instances)
           => /\ pc'[t] = "hit"
              /\ UNCHANGED <<instances, config_cache, built, lock>>
        /\ (pc[t] = "hit" /\ pc'[t] # "hit")
           => /\ pc'[t] = "idle"
              /\ res'[t].kind = "inst"
              /\ res'[t].inst \in {instances[k] : k \in DOMAIN instances}
              /\ UNCHANGED <<instances, config_cache, built, lock>>

\* a thread on the cached path can always take its next step
C22_NeverBlocked ==
    \A t \in Threads : pc[t] = "hit" => ENABLED GetConnectorReturn(t)

C22_CachedPath == []C22_NeverBlocked /\ [][C22_HitStep]_vars

\* C23: between two reload_config calls the configuration file is opened and
\* read at most once, however many config-less get_connector calls are made
\* and whatever the file holds.
C23_LoadedOnce == loads <= 1

-----------------------------------------------------------------------------
(* Properties of the chunker's windows *)

\* C24: for a text of n > chunk_size tokens and valid parameters, with
\* stride = chunk_size - chunk_overlap, chunk k (from 0) is the tokens
\* k*stride up to k*stride + chunk_size (cut at the end of the text); every
\* chunk but the last has chunk_size tokens, the last has more than
\* chunk_overlap tokens, there are ceil((n - chunk_overlap) / stride) chunks,
\* and every token of the text is in some chunk.
C24_WindowArithmetic ==
    (out.op = "chunk_text" /\ ValidParams /\ NWords > EffSize) =>
        LET n == NWords
            stride == EffSize - EffOverlap
            K == Len(out.list)
            first(k) == (k - 1) * stride + 1
            last(k) == Min((k - 1) * stride + EffSize, n)
        IN  /\ out.kind = "value"
            /\ K = (n - EffOverlap + stride - 1) \div stride
            /\ \A k \in 1..K : first(k) <= last(k) /\ out.list[k] = Phrase(first(k), last(k))
            /\ \A k \in 1..(K - 1) : last(k) - first(k) + 1 = EffSize
            /\ last(K) = n
            /\ last(K) - first(K) + 1 > EffOverlap
            /\ \A w \in 1..n : \E k \in 1..K : first(k) <= w /\ w <= last(k)

\* five tokens under a window of three with no overlap: a full chunk and a
\* tail of two
C24_Witness ==
    /\ out.op = "chunk_text"
    /\ ValidParams
    /\ NWords = 5 /\ EffSize = 3 /\ EffOverlap = 0
    /\ out.list = <<"w1 w2 w3", "w4 w5">>

\* the chunk_size and chunk_overlap the chunker in use was constructed with
\* (internal.py 25-26)
StoredSize ==
    Get(provider_config(conn.config, conn.provider).sub, "chunk_size",
        N("chunk_size", 512)).n

StoredOverlap ==
    Get(provider_config(conn.config, conn.provider).sub, "chunk_overlap",
        N("chunk_overlap", 50)).n

\* C25: no InternalChunker exists whose configured chunk_size is <= 0 or
\* whose configured chunk_overlap is >= its chunk_size: the constructor
\* rejects such a configuration.
C25_ChunkerValid ==
    conn.provider = "InternalChunker" => (StoredSize > 0 /\ StoredOverlap < StoredSize)

-----------------------------------------------------------------------------
(* Properties of the cache key *)

\* the call of t had no explicit config and the call of u had an explicit one
\* equal in content to the configuration t's connector was built from; both
\* returned, with no reload_config / clear_instances since the earlier began
DefaultAndExplicit(t, u) ==
    /\ pc[t] = "idle" /\ pc[u] = "idle"
    /\ res[t].kind = "inst" /\ res[u].kind = "inst"
    /\ ~Explicit(call[t]) /\ Explicit(call[u])
    /\ call[t].st = call[u].st
    /\ ContentEq(call[u].cfg, res[t].inst.config)
    /\ ~clearedSince[t] /\ ~clearedSince[u]

\* C26: a call with no explicit config and a call whose explicit config
\* equals in content the resolved default configuration have the same cache
\* key and return the same instance.
C26_KeyFromResolvedConfig ==
    \A t, u \in Threads :
        DefaultAndExplicit(t, u)
            => (KeyOf(call[t]) = KeyOf(call[u]) /\ res[t].inst.id = res[u].inst.id)

\* a and b have the same top-level keys and the same top-level scalar values,
\* and differ inside a nested section
NestedOnlyDiff(a, b) ==
    /\ Keys(a) = Keys(b)
    /\ \A k \in Keys(a) :
          LET x == Item(a, k)
              y == Item(b, k)
          IN  x.kind = y.kind /\ x.s = y.s /\ x.n = y.n
    /\ ~ContentEq(a, b)

\* both calls had an explicit config, for the same service type, the two
\* differing in a nested setting only, and both returned with no
\* reload_config / clear_instances since the earlier began
NestedPair(t, u) ==
    /\ Got(t) /\ Got(u)
    /\ Explicit(call[t]) /\ Explicit(call[u])
    /\ call[t].st = call[u].st
    /\ NestedOnlyDiff(call[t].cfg, call[u].cfg)

\* C27 as stated: two configurations for the same service type that differ
\* only in a nested provider-specific setting get the same cache key, and the
\* second call returns the instance built for the first.
C27_NestedCollide ==
    \A t, u \in Threads :
        NestedPair(t, u)
            => (KeyOf(call[t]) = KeyOf(call[u]) /\ res[t].inst.id = res[u].inst.id)

\* C27 amended: the key covers the nested settings too; two configurations
\* for the same service type that differ only in a nested provider-specific
\* setting get different cache keys, and each call returns an instance of
\* its own, built from its own configuration.
C27_NestedDistinct ==
    \A t, u \in Threads :
        NestedPair(t, u)
            => /\ KeyOf(call[t]) # KeyOf(call[u])
               /\ res[t].inst.id # res[u].inst.id
               /\ ContentEq(res[t].inst.config, call[t].cfg)
               /\ ContentEq(res[u].inst.config, call[u].cfg)

\* one tesseract connector for http://a and another for http://b
C27_Witness ==
    /\ NestedPair("t1", "t2")
    /\ call["t1"].cfg = CfgTess /\ call["t2"].cfg = CfgTessB
    /\ res["t1"].inst.id = 1 /\ res["t2"].inst.id = 2

-----------------------------------------------------------------------------
(* The substitution of environment variables, factory.py 164-166 *)

\* A text is a sequence of pieces: a run of ordinary characters, or one
\* ${NAME} placeholder.
Lit(s) == [kind |-> "lit", s |-> s, name |-> ""]
Ph(name) == [kind |-> "ph", s |-> "", name |-> name]

\* config_content.replace(f"${{{var_name}}}", var_value)
RECURSIVE replace(_, _, _)
replace(content, var_name, var_value) ==
    IF content = <<>> THEN <<>>
    ELSE (IF Head(content) = Ph(var_name) THEN var_value ELSE <<Head(content)>>)
         \o replace(Tail(content), var_name, var_value)

\* for var_name, var_value in os.environ.items(): one replace after the
\* other, each on the text the one before left; environ is os.environ in the
\* order its items are visited
RECURSIVE substitute(_, _)
substitute(config_content, environ) ==
    IF environ = <<>> THEN config_content
    ELSE substitute(replace(config_content, environ[1].name, environ[1].value),
                    Tail(environ))

MaxContent == 2

Pieces == {Lit("x"), Ph("A"), Ph("B"), Ph("C")}

Contents == UNION {[1..n -> Pieces] : n \in 0..MaxContent}

\* the values A and B may have: plain, holding the other's placeholder, or
\* holding the placeholder of a variable that is not set
EnvValues(other) == {<<Lit("v")>>, <<Ph(other)>>, <<Lit("v"), Ph("C")>>}

\* os.environ: A and B set, in either order of visit, or A alone, or nothing
Environs ==
    {<<[name |-> "A", value |-> a], [name |-> "B", value |-> b]>> :
        a \in EnvValues("B"), b \in EnvValues("A")}
    \cup {<<[name |-> "B", value |-> b], [name |-> "A", value |-> a]>> :
        a \in EnvValues("B"), b \in EnvValues("A")}
    \cup {<<[name |-> "A", value |-> a]>> : a \in EnvValues("B")}
    \cup {<<>>}

\* _load_config 162-166 on a file of that content under that environment
Substitute(config_content, environ) ==
    /\ out' = [NoOut EXCEPT !.op = "substitute", !.input = config_content,
                            !.kwargs = environ,
                            !.list = substitute(config_content, environ)]
    /\ UNCHANGED <<factoryVars, conn, api, dimension>>

EnvInit == FactoryInit({[kind |-> "map", doc |-> DocA]}) /\ ConnIdle

EnvNext ==
    \E config_content \in Contents, environ \in Environs :
        Substitute(config_content, environ)

EnvSpec == EnvInit /\ [][EnvNext]_vars

\* every placeholder of the text replaced by the value of its variable, if
\* set, once
RECURSIVE Expanded(_, _)
Expanded(content, environ) ==
    IF content = <<>> THEN <<>>
    ELSE LET p == Head(content)
             set == {i \in 1..Len(environ) : p.kind = "ph" /\ environ[i].name = p.name}
         IN  (IF set = {} THEN <<p>> ELSE environ[CHOOSE i \in set : TRUE].value)
             \o Expanded(Tail(content), environ)

\* the same variables visited in the opposite order
RECURSIVE Reversed(_)
Reversed(seq) == IF seq = <<>> THEN <<>> ELSE Reversed(Tail(seq)) \o <<Head(seq)>>

\* C28: the substituted text is the original with every ${NAME} whose NAME is
\* set replaced by exactly that variable's value and every other placeholder
\* left as it is, whatever the order in which the variables are visited.
C28_Substitution ==
    out.op = "substitute" =>
        /\ out.list = Expanded(out.input, out.kwargs)
        /\ out.list = substitute(out.input, Reversed(out.kwargs))

-----------------------------------------------------------------------------
(* Properties of the resilient call and of the connectivity test *)

\* C29: the HTTP requests one _call_api makes never exceed the connector's
\* max_retries, and against an endpoint that always times out they are
\* exactly max_retries.
C29_AttemptsFromConfig ==
    api.pc = "done" =>
        /\ api.requests <= max_retries(conn.config).n
        /\ api.server = "timeout" => api.requests = max_retries(conn.config).n

\* a connectivity test has just returned, with a status and a body or with
\* an error response
C30_TestStep ==
    out'.op = "test_service_connection" =>
        /\ DOMAIN instances' = DOMAIN instances
        /\ conn' # NoInst => conn'.id \notin {b.id : b \in built}

\* C30: a connectivity test leaves the registry as it found it (its connector
\* is not kept), and the connector of a test is a new one each time.
C30_Throwaway == [][C30_TestStep]_vars

-----------------------------------------------------------------------------
(* Properties of the health probes *)

\* C31: the health probe of the Tesseract, HuggingFace, Ollama and OpenAI
\* providers makes its request with the fixed timeout of 5 seconds, whatever
\* timeout is configured.
C31_ProbeTimeout ==
    (out.op = "health_check"
     /\ conn.provider \in {"LocalTesseractProvider", "HuggingFaceEmbedding",
                           "OllamaEmbedding", "OpenAIEmbedding"})
        => out.timeout = 5

-----------------------------------------------------------------------------
(* The factory lock *)

\* the lock is held only by a thread inside one of the three locked blocks
LockHeldInBlock ==
    /\ lock \in Threads \cup {""}
    /\ \A t \in Threads : lock = t <=> pc[t] \in {"locked", "reload", "clear"}

\* some thread that is inside a call can take its next step
NoDeadlock ==
    (\E t \in Threads : pc[t] # "idle") =>
        \E t \in Threads :
            \/ ENABLED GetConnectorAcquire(t)
            \/ ENABLED GetConnectorLocked(t)
            \/ ENABLED GetConnectorReturn(t)
            \/ ENABLED ReloadConfigClear(t)
            \/ ENABLED ClearInstancesClear(t)

\* C32: the factory lock is always released: it is held only inside a locked
\* block, so it is free after a construction that failed; no state is a
\* deadlock; and under fair scheduling every get_connector, reload_config or
\* clear_instances call that began ends.
C32_LockReleased ==
    /\ [](LockHeldInBlock /\ NoDeadlock)
    /\ \A t \in Threads : (pc[t] # "idle") ~> (pc[t] = "idle")

\* t1's construction failed under the lock while t2 waits for the lock, and
\* the lock is free
C32_Witness ==
    /\ pc["t1"] = "idle" /\ res["t1"].kind = "error"
    /\ res["t1"].err = "ConfigurationError"
    /\ pc["t2"] = "acquire"
    /\ lock = ""

-----------------------------------------------------------------------------
(* Properties of the service type and of the configuration snapshot *)

\* the calls of t and u named one service type in two spellings, with
\* explicit configurations equal in content, and both ended with no
\* reload_config / clear_instances since the earlier began
TwoSpellings(t, u) ==
    /\ pc[t] = "idle" /\ pc[u] = "idle"
    /\ res[t].kind # "none" /\ res[u].kind # "none"
    /\ ~clearedSince[t] /\ ~clearedSince[u]
    /\ Explicit(call[t]) /\ Explicit(call[u])
    /\ call[t].st # call[u].st /\ Lower(call[t].st) = Lower(call[u].st)
    /\ call[t].cfg = call[u].cfg

CachedByDefault ==
    {st \in {"ocr", "embedding"} : KeyOf(ReqNone(st)) \in DOMAIN instances}

\* that connector was built from the hard-coded defaults
FromDefaults(st) ==
    instances[KeyOf(ReqNone(st))].config = get_default_config(st)

\* that connector was built from the section of the document in the cache
FromCache(st) ==
    /\ config_cache.kind = "map"
    /\ instances[KeyOf(ReqNone(st))].config
           = Get(config_cache.doc, st \o "_service", M(st \o "_service", <<>>)).sub

\* C34: outside a reload_config under way, the connectors cached under the
\* no-explicit-config keys are all built from the hard-coded defaults or all
\* from the document loaded into the cache: a file that appears after a
\* fallback to the defaults is not picked up before reload_config.
C34_OneSnapshot ==
    ~MidReload =>
        \/ \A st \in CachedByDefault : FromDefaults(st)
        \/ \A st \in CachedByDefault : FromCache(st)

-----------------------------------------------------------------------------
(* embed of the embedding providers, batch by batch *)

\* str(t).strip() on the texts used here
strip(t) == IF t = " " THEN "" ELSE t

\* texts = [str(t).strip() for t in texts if t]: the falsy texts dropped, the
\* others stripped
stripped(texts) ==
    LET kept == SelectSeq(texts, LAMBDA t : t # "")
    IN  [i \in 1..Len(kept) |-> strip(kept[i])]

\* A batch size taken from the call's options when they give one.
batch_size_from_kwargs(section, kwargs) ==
    Get(kwargs, "batch_size", Get(section, "batch_size", N("batch_size", 16))).n

\* self.batch_size = config.get('batch_size', 16); embed reads no option
batch_size(section, kwargs) == Get(section, "batch_size", N("batch_size", 16)).n

\* the vectors a service that answers returns for a batch: one for each text
vectors(batch) == [i \in 1..Len(batch) |-> "vec:" \o batch[i]]

\* embed (the same code in the three providers) when the failAt-th
\* _embed_batch meets net and the others are answered; failAt = 0 for none:
\* [exc |-> the exception raised or "", list |-> the vectors returned,
\*  sent |-> the batches _embed_batch was called with]
embed_batches(provider, section, texts, kwargs, failAt, net) ==
    LET kept == stripped(texts)
        bs == batches(kept, 0, batch_size(section, kwargs))
    IN  IF texts = <<>> THEN [exc |-> "", list |-> <<>>, sent |-> <<>>]
        ELSE IF kept = <<>> THEN [exc |-> "ValueError", list |-> <<>>, sent |-> <<>>]
        ELSE IF failAt \in 1..Len(bs) /\ embed_batch(provider, net) # ""
             THEN [exc |-> "Exception", list |-> <<>>, sent |-> SubSeq(bs, 1, failAt)]
        ELSE [exc |-> "", list |-> vectors(kept), sent |-> bs]

MaxTexts == 3

EmbedTexts == UNION {[1..n -> {"", "a", " "}] : n \in 0..MaxTexts}

EmbedKwargs == {<<>>, <<N("batch_size", 1)>>}

\* how the batches fare: all answered, or the first gets no answer in time,
\* or the second meets an error status
EmbedRuns == {<<0, "200">>, <<1, "timeout">>, <<2, "500">>}

\* an embedding connector for each provider, with batches of two
CfgBatched(name) ==
    <<S("provider", name), M(name, <<S("api_key", "sk-1"), N("batch_size", 2)>>)>>

EmbedInit ==
    /\ FactoryInit({[kind |-> "absent", doc |-> <<>>]})
    /\ conn \in {new_connector("EmbeddingConnector", CfgBatched(name), 1).inst :
                    name \in {"openai", "huggingface", "ollama"}}
                \cup {new_connector("EmbeddingConnector", CfgOllama, 1).inst}
    /\ out = NoOut
    /\ api = NoApi
    /\ dimension = NoDimension

\* EmbeddingConnector.process(texts, **kwargs): self.provider.embed(texts, **kwargs)
Embed(texts, kwargs, failAt, net) ==
    /\ conn.cls = "EmbeddingConnector"
    /\ LET r == embed_batches(conn.provider, provider_config(conn.config, conn.provider).sub,
                              texts, kwargs, failAt, net)
       IN  out' = [NoOut EXCEPT !.op = "embed", !.net = net, !.input = texts,
                                !.kwargs = kwargs, !.status = failAt,
                                !.kind = IF r.exc = "" THEN "value" ELSE "raised",
                                !.exc = r.exc, !.list = r.list, !.sent = r.sent]
    /\ UNCHANGED <<factoryVars, conn, api, dimension>>

EmbedNext ==
    \E texts \in EmbedTexts, kwargs \in EmbedKwargs, run \in EmbedRuns :
        Embed(texts, kwargs, run[1], run[2])

EmbedSpec == EmbedInit /\ [][EmbedNext]_vars

\* the texts that remain, stripped: the non-empty ones in input order
Remaining == stripped(out.input)

\* the batch size the connector in use was configured with
ConfiguredBatch ==
    Get(provider_config(conn.config, conn.provider).sub, "batch_size",
        N("batch_size", 16)).n

RECURSIVE Flat(_)
Flat(seqs) == IF seqs = <<>> THEN <<>> ELSE Head(seqs) \o Flat(Tail(seqs))

\* the batches sent are consecutive runs of the remaining texts, each but the
\* last sent of exactly the configured size, the last of at most that
BatchesAsConfigured ==
    /\ \A i \in 1..Len(out.sent) :
          out.sent[i] = SubSeq(Remaining, (i - 1) * ConfiguredBatch + 1,
                               Min(i * ConfiguredBatch, Len(Remaining)))
    /\ \A i \in 1..Len(out.sent) : Len(out.sent[i]) \in 1..ConfiguredBatch

\* the failAt-th batch was sent and failed
BatchFailed == out.status \in 1..Len(batches(Remaining, 0, ConfiguredBatch))

-----------------------------------------------------------------------------
(* get_dimension of the embedding providers *)

\* OpenAIEmbedding.MODEL_DIMENSIONS, 0 for a model it does not list
MODEL_DIMENSIONS(model_name) ==
    CASE model_name = "text-embedding-3-small" -> 1536
      [] model_name = "text-embedding-3-large" -> 3072
      [] model_name = "text-embedding-ada-002" -> 1536
      [] OTHER -> 0

\* the value returned when the probe fails
fallback_dimension(provider) ==
    CASE provider = "HuggingFaceEmbedding" -> 1024
      [] provider = "OllamaEmbedding" -> 768
      [] OTHER -> 1536

\* A provider that never finds a stored dimension.
dimension_never_cached(d) == FALSE

\* if self._dimension is not None
dimension_cached(d) == d.set

\* get_dimension of the provider, with d its _dimension, when a probe it makes
\* meets net and a service that answers returns a vector of length len:
\* [value |-> the int returned, d |-> _dimension and the probes afterwards,
\*  requests |-> the requests this call made].  Nothing leaves it: the except
\* Exception clause returns the fallback.
get_dimension(provider, section, d, net, len) ==
    LET answered == embed_batch(provider, net) = ""
        probed == [d EXCEPT !.probes = @ + 1]
        model_name == Get(section, "model_name",
                          S("model_name", "text-embedding-3-small")).s
    IN  IF provider = "OpenAIEmbedding"
        THEN IF MODEL_DIMENSIONS(model_name) # 0
             THEN [value |-> MODEL_DIMENSIONS(model_name), d |-> d, requests |-> 0]
             ELSE [value |-> IF answered THEN len ELSE fallback_dimension(provider),
                   d |-> probed, requests |-> 1]
        ELSE IF dimension_cached(d)
        THEN [value |-> d.n, d |-> d, requests |-> 0]
        ELSE IF answered
        THEN [value |-> len, d |-> [probed EXCEPT !.set = TRUE, !.n = len], requests |-> 1]
        ELSE [value |-> fallback_dimension(provider),
              d |-> [probed EXCEPT !.set = TRUE, !.n = fallback_dimension(provider)],
              requests |-> 1]

MaxProbes == 3

\* the lengths of the vector a service may return
Lengths == {0, 384}

CfgOpenAISmall ==
    <<S("provider", "openai"),
      M("openai", <<S("api_key", "sk-1"), S("model_name", "text-embedding-3-small")>>)>>

DimInit ==
    /\ FactoryInit({[kind |-> "absent", doc |-> <<>>]})
    /\ conn \in {new_connector("EmbeddingConnector", cfg, 1).inst :
                    cfg \in {CfgHuggingFace, CfgOllama, CfgOpenAIKey, CfgOpenAISmall}}
    /\ out = NoOut
    /\ api = NoApi
    /\ dimension = NoDimension

\* EmbeddingConnector.get_dimension: self.provider.get_dimension()
GetDimension(net, len) ==
    /\ conn.cls = "EmbeddingConnector"
    /\ dimension.probes < MaxProbes
    /\ LET r == get_dimension(conn.provider,
                              provider_config(conn.config, conn.provider).sub,
                              dimension, net, len)
       IN  /\ dimension' = r.d
           /\ out' = [NoOut EXCEPT !.op = "get_dimension", !.net = net,
                                   !.input = <<len>>, !.kind = "value",
                                   !.value = r.value, !.requests = r.requests]
    /\ UNCHANGED <<factoryVars, conn, api>>

DimNext == \E net \in Net, len \in Lengths : GetDimension(net, len)

DimSpec == DimInit /\ [][DimNext]_vars

\* the provider in use keeps what it found
CachingProvider == conn.provider \in {"HuggingFaceEmbedding", "OllamaEmbedding"}

\* a get_dimension call of a caching provider: it returns a value; with a
\* dimension stored it returns that one, makes no request and stores
\* nothing; with none stored it makes one request and stores what it
\* returns, the length found or, the probe failing, the fallback
C36_DimensionStep ==
    CachingProvider =>
        /\ out'.op = "get_dimension" /\ out'.kind = "value"
        /\ dimension'.set /\ out'.value = dimension'.n
        /\ dimension.set => (dimension' = dimension /\ out'.requests = 0)
        /\ ~dimension.set =>
              /\ out'.requests = 1
              /\ dimension'.n = IF out'.net \in {"200"} THEN out'.input[1]
                                 ELSE IF conn.provider = "HuggingFaceEmbedding" THEN 1024
                                 ELSE 768

\* C36: get_dimension of the HuggingFace and Ollama providers never raises
\* and makes at most one probe request over any sequence of calls; the first
\* call stores the dimension found or the fallback (1024 / 768), and every
\* later call returns the stored value without a request.
C36_DimensionCached ==
    /\ [](CachingProvider => dimension.probes <= 1)
    /\ [][C36_DimensionStep]_vars

\* the fallback was stored, and a later call that would have been answered
\* returned it without a request
C36_Witness ==
    /\ conn.provider = "HuggingFaceEmbedding"
    /\ dimension = [set |-> TRUE, n |-> 1024, probes |-> 1]
    /\ out.op = "get_dimension" /\ out.net = "200"
    /\ out.requests = 0 /\ out.value = 1024

-----------------------------------------------------------------------------
(* clear_instances and the configuration cache; the empty configuration *)

\* clear_instances returns: the registry is empty, the cache and the count of
\* file reads are as they were
C37_ClearStep ==
    \A t \in Threads :
        (pc[t] = "clear" /\ pc'[t] = "idle")
        => (instances' = EmptyRegistry /\ config_cache' = config_cache /\ loads' = loads)

\* a call without explicit config constructs while the cache holds a
\* document: a connector that did not exist before, from the section of that
\* document, with no read of the file
C37_BuildStep ==
    \A t \in Threads :
        (pc[t] = "locked" /\ pc'[t] = "return" /\ ~Explicit(call[t])
           /\ config_cache.kind = "map" /\ instances' # instances)
        => LET new == instances'[KeyOf(call[t])]
           IN  /\ new.id \notin {b.id : b \in built}
               /\ new.config = FreshConfig(config_cache, call[t].st)
               /\ loads' = loads
               /\ config_cache' = config_cache

\* C37: clear_instances empties the registry and leaves the ConfigCache as
\* it was; a get_connector without explicit config that constructs after it,
\* with no reload_config, builds a new instance from the configuration
\* content in the cache and does not read the file again.
C37_ClearKeepsCache == [][C37_ClearStep /\ C37_BuildStep]_vars

\* a connector built from DocA, clear_instances, the file replaced by DocB,
\* and a second connector built from DocA's section, the file read once
C37_Witness ==
    \E t \in Threads :
        /\ Got(t) /\ call[t] = ReqNone("ocr")
        /\ res[t].inst.id = 2
        /\ res[t].inst.config = FreshConfig([kind |-> "map", doc |-> DocA], "ocr")
        /\ file = [kind |-> "map", doc |-> DocB]
        /\ config_cache = [kind |-> "map", doc |-> DocA]
        /\ loads = 1

\* the call of t was made with the empty configuration {}
EmptyConfig(t) == call[t].hasCfg /\ call[t].cfg = <<>>

\* a call with {} has the key of the call with no config for its service type
C38_SameKey ==
    \A t \in Threads :
        (EmptyConfig(t) /\ pc[t] # "idle") => KeyOf(call[t]) = KeyOf(ReqNone(call[t].st))

\* a call with {} and a call with no config, both returned with no
\* reload_config / clear_instances since the earlier began, returned one
\* instance
C38_SameInstance ==
    \A t, u \in Threads :
        (Got(t) /\ Got(u) /\ EmptyConfig(t) /\ call[u] = ReqNone(call[t].st))
            => res[t].inst.id = res[u].inst.id

\* a call with {} that constructs builds from the document in the cache, or
\* with none there from the file as it is, or from the defaults
C38_BuildStep ==
    \A t \in Threads :
        (pc[t] = "locked" /\ pc'[t] = "return" /\ EmptyConfig(t)
           /\ instances' # instances)
        => instances'[KeyOf(call[t])].config
              = FreshConfig(IF config_cache.kind = "map" THEN config_cache ELSE file,
                            call[t].st)

\* C38: get_connector(t, {}) has the cache key of get_connector(t, None),
\* builds from the loaded or default configuration, and the two calls return
\* the same instance.
C38_EmptyIsNone == [](C38_SameKey /\ C38_SameInstance) /\ [][C38_BuildStep]_vars

\* get_connector('ocr', {}) built a connector from the defaults and
\* get_connector('ocr') returned it
C38_Witness ==
    /\ Got("t1") /\ Got("t2")
    /\ EmptyConfig("t1") /\ call["t2"] = ReqNone("ocr")
    /\ res["t1"].inst.id = 1 /\ res["t2"].inst.id = 1
    /\ res["t1"].inst.config = get_default_config("ocr")
    /\ built = {[id |-> 1, key |-> "ocr_0"]}

=============================================================================
